---------------------------- MODULE Spec2Model ----------------------------
(***************************************************************************)
(* A model of tangle: the kqueue directory watcher (tangle/watcher.py),    *)
(* the event records (tangle/events.py) and the socket transport          *)
(* (tangle/comm.py), together with the part of the environment they       *)
(* observe: a filesystem tree, the kernel's descriptor table and the      *)
(* vnode notes of a kqueue.                                                *)
(*                                                                         *)
(* Paths are strings, exactly as in the source ("./sub/a"); os.path.join,  *)
(* os.path.dirname and str.startswith are computed on the characters.      *)
(* One step of the Watcher is one iteration of the loop of Watcher.run:    *)
(* kq.control(changelist, 1, 1) returns at most one kevent, so at most one *)
(* notification is handled per iteration.  Filesystem operations of other  *)
(* processes happen between iterations.  A directory listing and a set are *)
(* walked in ascending inode order; a rename never replaces an existing    *)
(* name.  Spec is the Watcher with its filesystem; SpecComm is send_event  *)
(* and recv_event over the stream socket, fed with events of the shapes    *)
(* the Watcher builds.                                                     *)
(***************************************************************************)
EXTENDS Integers, Sequences, FiniteSets, TLC

\* ------------------------------------------------------------------ bounds
\* Number of filesystem operations other processes perform while the Watcher
\* is in its event loop (the tree it starts on is built before, uncounted).
MaxOps == 2
\* Number of operations other processes perform in SpecMoves, where they
\* only move and remove directories.
MaxMoves == 3
\* Highest inode number the filesystem hands out (the root is inode 1).
MaxInode == 3
\* Number of send_event calls made on the socket in the transport model.
MaxSend == 3

\* Basenames other processes use for the files and directories they make:
\* two ordinary names, a file name matching IGNORE_PATTERNS and a directory
\* name in IGNORE_DIRS.
NameSeq == <<"a", "b", ".#a", ".git">>
Names == {NameSeq[i] : i \in 1..Len(NameSeq)}
NamesFor(kind) == IF kind = "file" THEN Names \ {".git"} ELSE Names \ {".#a"}
NameRank(n) == CHOOSE i \in 1..Len(NameSeq) : NameSeq[i] = n

\* ------------------------------------------------------- program constants
IGNORE_DIRS == {".git", "CVS", ".svn", ".hg"}
IGNORE_PATTERNS == {".#"}

KQ_NOTE_DELETE == "NOTE_DELETE"
KQ_NOTE_WRITE == "NOTE_WRITE"
KQ_NOTE_ATTRIB == "NOTE_ATTRIB"
KQ_NOTE_RENAME == "NOTE_RENAME"

CREATE_FILE == "create_file"
CREATE_DIR == "create_dir"
WRITE == "write"
DELETE == "delete"
RENAME_FILE == "rename_file"
RENAME_DIR == "rename_dir"
STARTED == "started"
STOPPED == "stopped"
SHUTDOWN == "shutdown"
EventType ==
  {CREATE_FILE, CREATE_DIR, WRITE, DELETE, RENAME_FILE, RENAME_DIR,
   STARTED, STOPPED, SHUTDOWN}

\* Python's None in the fd slot of an event (descriptors are never negative),
\* and the inode StartEv and StopEv carry.
None == -1
NoInode == -1

\* The inode of the watched root directory.
RootInode == 1

VARIABLES
  fs,          \* the tree on disk: inode -> [kind, parent, name]
  nextIno,     \* the next inode number the filesystem hands out
  nops,        \* filesystem operations performed since the Watcher started
  oplog,       \* those operations, in order: [op, inode, kind, src, dst]
  fdtab,       \* the Watcher process's open descriptors: fd -> inode (0: no vnode)
  knotes,      \* the kqueue's registered vnode notes: fd -> [udata, fflags]
  pc,          \* where the Watcher is: "init", "loop", "done", "crashed"
  raised,      \* the exception that ended run(), "" when none did
  inode_map,   \* Watcher.inode_map
  changelist,  \* Watcher.changelist
  root_fd,     \* Watcher.root_fd
  die,         \* Watcher.die
  sent,        \* the events handed to send_event, in order
  parent_queue,\* number of items on the Watcher's control queue
  handled,     \* the kevents kq.control returned, in order: [ident, udata,
               \* fflags, time, as]
  kernel,      \* how the host queues descriptor-carrying stream data
  sock,        \* the stream socket: messages sent and not yet received
  nsent,       \* number of send_event calls made on the socket
  sendlog,     \* every sendmsg call: [event, anc]
  cfdtab,      \* the consumer's received descriptors: fd -> [inode, seq]
  rcvd,        \* what recv_event returned, call by call
  cpc,         \* the consumer: "recv", or "crashed" after AssertionError
  spc,         \* the Supervisor (tangle-client.py): "new", "p_started",
               \* "running", "stopping", "w_joined", "p_joined", "cleaned"
  ppc,         \* Processor.run: "init", "waiting", "connected", "stopped",
               \* "closed", "timeout", "failed", "crashed"
  rounds,      \* wait rounds Processor.run has completed without a connection
  sockfile,    \* whether the rendezvous socket path exists
  pq,          \* number of items on the Processor's control queue
  conn         \* the Watcher's connection: "none", "pending", "accepted"

wvars ==
  <<fs, nextIno, nops, oplog, fdtab, knotes, pc, raised, inode_map, changelist,
    root_fd, die, sent, parent_queue, handled>>
cvars == <<kernel, sock, nsent, sendlog, cfdtab, rcvd, cpc>>
svars == <<spc, ppc, rounds, sockfile, pq, conn>>
vars == <<wvars, cvars, svars>>

\* The Processor has bound the rendezvous address and listens on it
Listening == ppc \in {"waiting", "connected"}

\* The Processor has exited: its sockets are closed
PeerGone == ppc \in {"stopped", "closed", "timeout", "failed", "crashed"}

\* ------------------------------------------------------------ os.path
startswith(s, prefix) ==
  /\ Len(s) >= Len(prefix)
  /\ SubSeq(s, 1, Len(prefix)) = prefix

endswith(s, suffix) ==
  /\ Len(s) >= Len(suffix)
  /\ SubSeq(s, Len(s) - Len(suffix) + 1, Len(s)) = suffix

\* s.rfind('/') + 1: the index of the last separator, 0 when there is none.
rfind_sep(s) ==
  LET at == {i \in 1..Len(s) : SubSeq(s, i, i) = "/"}
  IN IF at = {} THEN 0 ELSE CHOOSE i \in at : \A j \in at : j <= i

\* posixpath.join(a, b)
path_join(a, b) ==
  IF startswith(b, "/") THEN b
  ELSE IF a = "" \/ endswith(a, "/") THEN a \o b
  ELSE a \o "/" \o b

\* posixpath.split(p)[0] for paths without repeated or trailing separators
path_dirname(p) ==
  LET i == rfind_sep(p)
  IN IF i <= 1 THEN SubSeq(p, 1, i) ELSE SubSeq(p, 1, i - 1)

\* posixpath.split(p)[1]
path_basename(p) == SubSeq(p, rfind_sep(p) + 1, Len(p))

\* ------------------------------------------------------------ filesystem
Live == DOMAIN fs
IsDirOnDisk(i) == i \in Live /\ fs[i].kind = "dir"
IsFileOnDisk(i) == i \in Live /\ fs[i].kind = "file"
Children(d) == {i \in Live : fs[i].parent = d}
ChildDirs(d) == {i \in Children(d) : fs[i].kind = "dir"}
ChildFiles(d) == {i \in Children(d) : fs[i].kind = "file"}
NameTaken(d, n) == \E i \in Children(d) : fs[i].name = n

RECURSIVE Ancestors(_)
Ancestors(i) ==
  IF i = RootInode \/ i \notin Live THEN {}
  ELSE {fs[i].parent} \cup Ancestors(fs[i].parent)

\* The path of a live object as fwalk('.', dir_fd=root_fd) names it.
RECURSIVE TruePath(_)
TruePath(i) ==
  IF i = RootInode THEN "." ELSE path_join(TruePath(fs[i].parent), fs[i].name)

\* A finite set of numbers as the ascending sequence of its elements: the
\* order in which a directory's entries are listed and sets are iterated.
RECURSIVE Ascending(_)
Ascending(S) ==
  IF S = {} THEN <<>>
  ELSE LET m == CHOOSE x \in S : \A y \in S : x <= y
       IN <<m>> \o Ascending(S \ {m})

\* The kernel posts `flag` on every registered note whose descriptor refers
\* to `inode` (EV_CLEAR: the flags of one note accumulate until it is read).
Post(kn, inode, flag) ==
  [fd \in DOMAIN kn |->
     IF fdtab[fd] = inode
     THEN [kn[fd] EXCEPT !.fflags = @ \cup {flag}]
     ELSE kn[fd]]


\* Path resolution relative to root_fd: the inode a path names, 0 when a
\* component is missing.  "" and "." name the directory root_fd refers to.
RECURSIVE Walk(_)
Walk(p) ==
  IF p = "" \/ p = "." THEN RootInode
  ELSE LET d == Walk(path_dirname(p))
           hit == {i \in Live : fs[i].parent = d /\ fs[i].name = path_basename(p)}
       IN IF d = 0 \/ hit = {} THEN 0 ELSE CHOOSE i \in hit : TRUE

\* open(2) of a path relative to root_fd: the empty path is ENOENT.
Lookup(p) == IF p = "" THEN 0 ELSE Walk(p)

\* ------------------------------------------------------------ events.py
LocalEvent(type, inode, time, name, fd) ==
  [type |-> type, inode |-> inode, time |-> time, name |-> name, fd |-> fd]

\* time.time(), read as the number of filesystem operations performed since
\* the Watcher entered its loop
time == nops

StartEv == LocalEvent(STARTED, NoInode, time, "", None)
StopEv == LocalEvent(STOPPED, NoInode, time, "", None)
CreateFileEv(inode, name, fd) == LocalEvent(CREATE_FILE, inode, time, name, fd)
CreateDirEv(inode, name, fd) == LocalEvent(CREATE_DIR, inode, time, name, fd)
WriteEv(inode, name, fd) == LocalEvent(WRITE, inode, time, name, fd)
DeleteEv(inode, name, fd) == LocalEvent(DELETE, inode, time, name, fd)
RenameFileEv(inode, name, fd) == LocalEvent(RENAME_FILE, inode, time, name, fd)
RenameDirEv(inode, name, fd) == LocalEvent(RENAME_DIR, inode, time, name, fd)

\* ------------------------------------------------------------ descriptors
\* The lowest descriptor number not in use (0, 1 and 2 are the standard streams).
NextFd(tab) ==
  CHOOSE n \in 3..(3 + Cardinality(DOMAIN tab)) :
    /\ n \notin DOMAIN tab
    /\ \A m \in 3..(n - 1) : m \in DOMAIN tab

Restrict(f, S) == [x \in S |-> f[x]]

\* The Watcher's state as its methods thread it.  err is "" until a method
\* raises; after that no later statement of the handler runs.  note is the
\* position in `handled` of the kevent being handled, 0 outside a handler.
\* gone holds the inodes another process removes while the handler runs,
\* after their directory was listed: os.open of them is ENOENT.  bad maps
\* the descriptors whose os.close in stop() fails (EIO) to whether the
\* kernel has released the descriptor all the same.
WState(im, cl, tab, kn, out, err) ==
  [inode_map |-> im, changelist |-> cl, fdtab |-> tab, knotes |-> kn,
   sent |-> out, err |-> err, note |-> 0, gone |-> {}, bad |-> <<>>]

Raise(w, what) == IF w.err = "" THEN [w EXCEPT !.err = what] ELSE w

\* os.open / os.dup: a new descriptor for `inode`, numbered NextFd(w.fdtab)
os_open(w, inode) ==
  [w EXCEPT !.fdtab = (NextFd(w.fdtab) :> inode) @@ w.fdtab]

\* os.close: closing a descriptor drops its kqueue note; EBADF when not open
os_close(w, fd) ==
  IF fd \notin DOMAIN w.fdtab THEN Raise(w, "OSError")
  ELSE [w EXCEPT !.fdtab = Restrict(w.fdtab, DOMAIN w.fdtab \ {fd}),
                 !.knotes = Restrict(w.knotes, DOMAIN w.knotes \ {fd})]

\* ------------------------------------------------------------ comm.py (sender)
FdTypes == {CREATE_FILE, WRITE, RENAME_FILE, RENAME_DIR}

\* send_event that passes no descriptor with rename_dir
anc_data_files_only(event) ==
  IF event.type \in {CREATE_FILE, WRITE, RENAME_FILE} THEN <<event.fd>> ELSE <<>>

\* The ancillary data send_event attaches: the descriptors sent as SCM_RIGHTS
anc_data(event) == IF event.type \in FdTypes THEN <<event.fd>> ELSE <<>>

\* ------------------------------------------------------------ watcher.py
DirState(fd, name, files, dirs) ==
  [fd |-> fd, name |-> name, files |-> files, dirs |-> dirs]
FileState(fd, name, dirs) == [fd |-> fd, name |-> name, dirs |-> dirs]
IsDirState(state) == "files" \in DOMAIN state
IsFileState(state) == "files" \notin DOMAIN state

\* a kevent with descriptor and cookie exchanged
new_event_swapped(fd, inode) == [ident |-> inode, udata |-> fd]

new_event(fd, inode) == [ident |-> fd, udata |-> inode]

\* notify that puts the event ahead of those already sent
notify_first(w, event) ==
  IF w.err # "" THEN w
  ELSE [w EXCEPT !.sent = <<[event |-> event, anc |-> anc_data(event),
                             note |-> w.note]>> \o @]

\* Watcher.notify: send_event(self.sock, event).  sendmsg fails with EBADF
\* when a descriptor to pass is not open, with EPIPE when the peer is gone.
notify(w, event) ==
  IF w.err # "" THEN w
  ELSE IF \E i \in 1..Len(anc_data(event)) : anc_data(event)[i] \notin DOMAIN w.fdtab
  THEN Raise(w, "OSError")
  ELSE IF PeerGone THEN Raise(w, "BrokenPipeError")
  ELSE [w EXCEPT !.sent = Append(@, [event |-> event, anc |-> anc_data(event),
                                    note |-> w.note])]

register_dir(w, fd, dirname, inode, files, dirs) ==
  IF w.err # "" THEN w
  ELSE [w EXCEPT
          !.inode_map = (inode :> DirState(fd, dirname, files, dirs)) @@ @,
          !.changelist = Append(@, new_event(fd, inode))]

register_file(w, fd, filename, inode, current_dir) ==
  IF w.err # "" THEN w
  ELSE [w EXCEPT
          !.inode_map = (inode :> FileState(fd, filename, current_dir)) @@ @,
          !.changelist = Append(@, new_event(fd, inode))]

\* unregister that closes the descriptor and keeps the entry
drop_entry_keeping(w, inode) == w

\* unregister, line 134: del self.inode_map[inode]
drop_entry(w, inode) ==
  IF w.err # "" THEN w
  ELSE [w EXCEPT !.inode_map = Restrict(@, DOMAIN @ \ {inode})]

unregister(w, inode) ==
  IF w.err # "" \/ inode \notin DOMAIN w.inode_map THEN w
  ELSE drop_entry(os_close(w, w.inode_map[inode].fd), inode)

\* ignore_file that matches no pattern
ignore_file_none(filename) == FALSE

ignore_file(filename) ==
  \E pattern \in IGNORE_PATTERNS : startswith(filename, pattern)

\* update_state, line 186: queue a registration of the new descriptor
queue_event(w, fd, inode) ==
  IF w.err # "" THEN w
  ELSE [w EXCEPT !.changelist = Append(@, new_event(fd, inode))]

\* update_state, line 189: state._replace(fd=fd, name=name)
replace_fd_name(w, inode, fd, name) ==
  IF w.err # "" THEN w
  ELSE [w EXCEPT !.inode_map[inode].fd = fd, !.inode_map[inode].name = name]

\* update_state that closes the recorded descriptor whether or not the
\* new one differs from it
update_state_closing(w, fd, name, inode) ==
  IF w.err # "" \/ inode \notin DOMAIN w.inode_map THEN w
  ELSE replace_fd_name(os_close(w, w.inode_map[inode].fd), inode, fd, name)

update_state(w, fd, name, inode) ==
  IF w.err # "" \/ inode \notin DOMAIN w.inode_map THEN w
  ELSE replace_fd_name(
         IF fd # w.inode_map[inode].fd
         THEN queue_event(os_close(w, w.inode_map[inode].fd), fd, inode)
         ELSE w,
         inode, fd, name)

EmptyMap == [x \in {} |-> 0]

\* inode_for(path, is_dir=True, dir_fd=self.root_fd): the descriptor is opened
\* and closed again, so only the inode remains.
inode_for(path) == Lookup(path)

\* rename_children, the inline function of rename_dir: the loop over files
RECURSIVE rename_child_files(_, _, _)
rename_child_files(w, parent_path, todo) ==
  IF todo = <<>> \/ w.err # "" THEN w
  ELSE IF Head(todo) \notin DOMAIN w.inode_map THEN Raise(w, "KeyError")
  ELSE rename_child_files(
         [w EXCEPT !.inode_map[Head(todo)].dirs =
            path_join(parent_path, w.inode_map[Head(todo)].name)],
         parent_path, Tail(todo))

RECURSIVE rename_children(_, _, _)
RECURSIVE rename_child_dirs(_, _, _)
rename_children(w, parent_path, child_inode) ==
  IF w.err # "" THEN w
  ELSE IF child_inode \notin DOMAIN w.inode_map THEN Raise(w, "KeyError")
  ELSE IF IsFileState(w.inode_map[child_inode]) THEN Raise(w, "ValueError")
  ELSE LET state == w.inode_map[child_inode]
           dir_name == path_basename(state.name)
           new_name == path_join(parent_path, dir_name)
       IN rename_child_dirs(
            rename_child_files(
              [w EXCEPT !.inode_map[child_inode] =
                 DirState(state.fd, new_name, state.files, state.dirs)],
              parent_path, Ascending(state.files)),
            new_name, Ascending(state.dirs))

rename_child_dirs(w, new_name, todo) ==
  IF todo = <<>> \/ w.err # "" THEN w
  ELSE rename_child_dirs(rename_children(w, new_name, Head(todo)),
                         new_name, Tail(todo))

\* rename_dir, lines 218-228: list the parent of the recorded path and look
\* for the directory's inode in it.  top is 0 when the parent is missing.
find_new_name(parent, top, dir_inode) ==
  LET found == {d \in ChildDirs(top) :
                  inode_for(path_join(parent, fs[d].name)) = dir_inode}
  IN IF found = {} THEN ""
     ELSE path_join(parent, fs[CHOOSE d \in found : TRUE].name)

\* rename_dir, lines 244-249
rename_dir_children(w, dir_inode, new_name) ==
  [w |-> IF new_name # ""
         THEN rename_child_dirs(w, new_name,
                                Ascending(w.inode_map[dir_inode].dirs))
         ELSE w,
   new_name |-> new_name]

\* Watcher.rename_dir: [w, new_name]
rename_dir(w, dir_inode) ==
  LET parent == path_dirname(w.inode_map[dir_inode].name)
  IN IF ~IsDirOnDisk(Lookup(parent))     \* next(os.fwalk(parent, ...)) raises
     THEN [w |-> Raise(w, "FileNotFoundError"), new_name |-> ""]
     ELSE rename_dir_children(w, dir_inode,
                              find_new_name(parent, Lookup(parent), dir_inode))

\* process_dir, lines 277-291: the loop over the listed files.
\* stats is file_stats: inode -> [name, fd].
RECURSIVE scan_files(_, _, _)
scan_files(w, todo, stats) ==
  IF todo = <<>> THEN [w |-> w, stats |-> stats]
  ELSE IF ignore_file(fs[Head(todo)].name) THEN scan_files(w, Tail(todo), stats)
  ELSE IF Head(todo) \in w.gone              \* except FileNotFoundError
  THEN scan_files(w, Tail(todo), stats)
  ELSE LET f_inode == Head(todo)
           name == fs[f_inode].name
           known == f_inode \in DOMAIN w.inode_map
           \* fstat_by_name opens a descriptor; it is closed again when the
           \* inode is already in inode_map
           fd == IF known THEN w.inode_map[f_inode].fd ELSE NextFd(w.fdtab)
       IN scan_files(
            update_state(IF known THEN w ELSE os_open(w, f_inode),
                         fd, name, f_inode),
            Tail(todo), (f_inode :> [name |-> name, fd |-> fd]) @@ stats)

\* process_dir, lines 293-303: the loop over the listed directories
RECURSIVE scan_dirs(_, _, _, _)
scan_dirs(w, todo, dir_name, stats) ==
  IF todo = <<>> THEN [w |-> w, stats |-> stats]
  ELSE IF Head(todo) \in w.gone              \* fstat_by_name raises, line 296
  THEN [w |-> Raise(w, "FileNotFoundError"), stats |-> stats]
  ELSE LET d_inode == Head(todo)
           name == path_join(dir_name, fs[d_inode].name)
           known == d_inode \in DOMAIN w.inode_map
           fd == IF known THEN w.inode_map[d_inode].fd ELSE NextFd(w.fdtab)
       IN scan_dirs(
            update_state(IF known THEN w ELSE os_open(w, d_inode),
                         fd, name, d_inode),
            Tail(todo), dir_name,
            (d_inode :> [name |-> name, fd |-> fd]) @@ stats)

\* process_dir, lines 324 and 332: self.inode_map[dir_inode].<field>.add(inode)
\* process_dir that does not add the new child to the directory's set
add_child_none(w, dir_inode, field, inode) == w

add_child(w, dir_inode, field, inode) ==
  IF w.err # "" THEN w
  ELSE [w EXCEPT !.inode_map[dir_inode][field] = @ \cup {inode}]

\* the new_files loop without its notification
notify_create_file_silent(w, f_inode, name, fd) == w

\* process_dir, lines 329-330
notify_create_file(w, f_inode, name, fd) ==
  IF w.err = "" /\ f_inode \notin DOMAIN w.inode_map
  THEN notify(w, CreateFileEv(f_inode, name, fd))
  ELSE w

\* process_dir, lines 327-332: the loop over new_files
RECURSIVE add_files(_, _, _, _, _)
add_files(w, dir_inode, todo, stats, dir_name) ==
  IF todo = <<>> \/ w.err # "" THEN w
  ELSE LET f_inode == Head(todo)
           name == stats[f_inode].name
           fd == stats[f_inode].fd
       IN add_files(
            add_child(
              register_file(notify_create_file(w, f_inode, name, fd),
                            fd, name, f_inode, dir_name),
              dir_inode, "files", f_inode),
            dir_inode, Tail(todo), stats, dir_name)

RECURSIVE process_dir(_, _)
\* process_dir, lines 319-325: the loop over new_dirs
RECURSIVE add_dirs(_, _, _, _)
add_dirs(w, dir_inode, todo, stats) ==
  IF todo = <<>> \/ w.err # "" THEN w
  ELSE LET d_inode == Head(todo)
           name == stats[d_inode].name
           fd == stats[d_inode].fd
       IN add_dirs(
            process_dir(
              add_child(
                register_dir(notify(w, CreateDirEv(d_inode, name, fd)),
                             fd, name, d_inode, {}, {}),
                dir_inode, "dirs", d_inode),
              d_inode),
            dir_inode, Tail(todo), stats)

\* process_dir, lines 305-334: drop the children no longer seen, then
\* register the new ones
reconcile(w, dir_inode, file_stats, dir_stats) ==
  LET state == w.inode_map[dir_inode]
      kept_files == state.files \cap DOMAIN file_stats
      kept_dirs == state.dirs \cap DOMAIN dir_stats
      new_files == DOMAIN file_stats \ kept_files
      new_dirs == DOMAIN dir_stats \ kept_dirs
  IN add_files(
       add_dirs([w EXCEPT !.inode_map[dir_inode].files = kept_files,
                          !.inode_map[dir_inode].dirs = kept_dirs],
                dir_inode, Ascending(new_dirs), dir_stats),
       dir_inode, Ascending(new_files), file_stats, state.name)

\* process_dir, lines 293-303 on the outcome fr of the loop over files
process_subdirs(fr, dir_inode, dirs) ==
  LET dr == scan_dirs(fr.w, Ascending(dirs),
                      fr.w.inode_map[dir_inode].name, EmptyMap)
  IN [w |-> dr.w, file_stats |-> fr.stats, dir_stats |-> dr.stats]

reconcile_scanned(r, dir_inode) ==
  IF r.w.err # "" THEN r.w
  ELSE reconcile(r.w, dir_inode, r.file_stats, r.dir_stats)

process_dir(w, dir_inode) ==
  IF w.err # "" THEN w
  ELSE
    LET d == w.fdtab[w.inode_map[dir_inode].fd]
    IN IF ~IsDirOnDisk(d) THEN w          \* FileNotFoundError: return
       ELSE reconcile_scanned(
              process_subdirs(
                scan_files(w, Ascending(ChildFiles(d)), EmptyMap),
                dir_inode,
                {i \in ChildDirs(d) : fs[i].name \notin IGNORE_DIRS}),
              dir_inode)

\* handle_dir_event, lines 429-433
notify_rename_dir(r, inode, fd) ==
  notify(r.w, RenameDirEv(inode, r.new_name, fd))

dir_rename(w, event, state) ==
  IF KQ_NOTE_RENAME \in event.fflags /\ event.ident # root_fd
  THEN notify_rename_dir(rename_dir(w, event.udata), event.udata, state.fd)
  ELSE w

\* handle_dir_event, lines 435-438, and handle_file_event, lines 470-473
note_delete(w, event, state) ==
  IF KQ_NOTE_DELETE \in event.fflags
  THEN notify(unregister(w, event.udata),
              DeleteEv(event.udata, state.name, state.fd))
  ELSE w

\* the write part without its test of inode_map: process_dir looks the
\* removed inode up
dir_write_unguarded(w, event) ==
  IF KQ_NOTE_WRITE \notin event.fflags \/ w.err # "" THEN w
  ELSE IF event.udata \in DOMAIN w.inode_map THEN process_dir(w, event.udata)
  ELSE Raise(w, "KeyError")

\* handle_dir_event, lines 440-446
dir_write(w, event) ==
  IF KQ_NOTE_WRITE \in event.fflags /\ event.udata \in DOMAIN w.inode_map
  THEN process_dir(w, event.udata)
  ELSE w

handle_dir_event(w, event) ==
  dir_write(
    note_delete(dir_rename(w, event, w.inode_map[event.udata]),
                event, w.inode_map[event.udata]),
    event)

\* the rename part of handle_file_event unregistering the renamed file
file_rename_forgetting(w, event, state) ==
  IF KQ_NOTE_RENAME \in event.fflags
  THEN unregister(
         notify(w, RenameFileEv(event.udata,
                                path_join(state.dirs, state.name), state.fd)),
         event.udata)
  ELSE w

\* handle_file_event, lines 464-468
file_rename(w, event, state) ==
  IF KQ_NOTE_RENAME \in event.fflags
  THEN notify(w, RenameFileEv(event.udata,
                              path_join(state.dirs, state.name), state.fd))
  ELSE w

\* handle_file_event, lines 475-477
file_write(w, event, state) ==
  IF KQ_NOTE_WRITE \in event.fflags
  THEN notify(w, WriteEv(event.udata, state.name, state.fd))
  ELSE w

handle_file_event(w, event) ==
  file_write(
    note_delete(file_rename(w, event, w.inode_map[event.udata]),
                event, w.inode_map[event.udata]),
    event, w.inode_map[event.udata])

\* Watcher.stop: close every tracked descriptor, ignoring OSError
RECURSIVE stop_close(_, _)
stop_close(w, todo) ==
  IF todo = <<>> THEN w
  ELSE stop_close(
         IF /\ w.inode_map[Head(todo)].fd \in DOMAIN w.fdtab
            /\ \/ w.inode_map[Head(todo)].fd \notin DOMAIN w.bad
               \/ w.bad[w.inode_map[Head(todo)].fd]
         THEN os_close(w, w.inode_map[Head(todo)].fd)
         ELSE w,                                      \* except OSError
         Tail(todo))

\* The entries stop() reaches before the first whose close fails
RECURSIVE UntilFailure(_, _)
UntilFailure(w, todo) ==
  IF todo = <<>> THEN <<>>
  ELSE IF w.inode_map[Head(todo)].fd \in DOMAIN w.bad THEN <<Head(todo)>>
  ELSE <<Head(todo)>> \o UntilFailure(w, Tail(todo))

\* stop that gives up when a close fails
stop_until_failure(w) ==
  stop_close(w, UntilFailure(w, Ascending(DOMAIN w.inode_map)))

\* stop that closes nothing
stop_leaving_open(w) == w

stop(w) == stop_close(w, Ascending(DOMAIN w.inode_map))

\* ------------------------------------------------------------ Watcher.run
\* run, lines 373-377: a descriptor and a FileState for every listed file
RECURSIVE boot_files(_, _, _)
boot_files(w, todo, root) ==
  IF todo = <<>> THEN w
  ELSE IF ignore_file(fs[Head(todo)].name) THEN boot_files(w, Tail(todo), root)
  ELSE boot_files(
         register_file(os_open(w, Head(todo)), NextFd(w.fdtab),
                       fs[Head(todo)].name, Head(todo), root),
         Tail(todo), root)

\* run, lines 380-381: fstat_by_name opens a descriptor on every listed
\* subdirectory to learn its inode; nothing closes or records it
RECURSIVE boot_dir_inodes(_, _)
boot_dir_inodes(w, todo) ==
  IF todo = <<>> THEN w
  ELSE boot_dir_inodes(os_open(w, Head(todo)), Tail(todo))

\* run, lines 363-383: the body of the loop over os.fwalk for the directory
\* `top`, then fwalk's descent into the subdirectories left in dirs.  fwalk
\* holds its own descriptor rootfd on `top` until the subtree is done;
\* dir_fd is os.dup(rootfd).
RECURSIVE fwalk(_, _, _)
RECURSIVE fwalk_dirs(_, _, _)
fwalk_body(w, top, root, rootfd, dir_fd) ==
  LET dirs == {i \in ChildDirs(top) : fs[i].name \notin IGNORE_DIRS}
      file_inodes == {f \in ChildFiles(top) : ~ignore_file(fs[f].name)}
  IN os_close(
       fwalk_dirs(
         register_dir(
           boot_dir_inodes(
             boot_files(os_open(os_open(w, top), top),
                        Ascending(ChildFiles(top)), root),
             Ascending(dirs)),
           dir_fd, root, top, file_inodes, dirs),
         Ascending(dirs), root),
       rootfd)

fwalk(w, top, root) ==
  fwalk_body(w, top, root, NextFd(w.fdtab), NextFd(os_open(w, top).fdtab))

fwalk_dirs(w, todo, root) ==
  IF todo = <<>> THEN w
  ELSE fwalk_dirs(fwalk(w, Head(todo), path_join(root, fs[Head(todo)].name)),
                  Tail(todo), root)

\* kq.control(changelist, ...): EV_ADD | EV_ENABLE | EV_CLEAR of every
\* queued kevent; flags already pending on a note stay pending
RECURSIVE kq_register(_, _)
kq_register(kn, cl) ==
  IF cl = <<>> THEN kn
  ELSE LET e == Head(cl)
           old == IF e.ident \in DOMAIN kn THEN kn[e.ident].fflags ELSE {}
       IN kq_register((e.ident :> [udata |-> e.udata, fflags |-> old]) @@ kn,
                      Tail(cl))

\* run, lines 394-402: route one kevent by the inode in its udata
dispatch(w, event) ==
  IF event.udata \notin DOMAIN w.inode_map THEN w     \* LOG.error
  ELSE IF IsDirState(w.inode_map[event.udata]) THEN handle_dir_event(w, event)
  ELSE handle_file_event(w, event)

\* ------------------------------------------------------------ actions
Commit(w) ==
  /\ inode_map' = w.inode_map
  /\ changelist' = w.changelist
  /\ fdtab' = w.fdtab
  /\ knotes' = w.knotes
  /\ sent' = w.sent

Started(w) ==
  /\ Commit(w)
  /\ raised' = w.err
  /\ pc' = IF w.err = "" THEN "loop" ELSE "crashed"

\* Watcher.connect: one socket() and one sock.connect(self.sockname)
connect(w) ==
  IF Listening THEN os_open(w, 0)
  ELSE Raise(os_open(w, 0),
             IF sockfile THEN "ConnectionRefusedError" ELSE "FileNotFoundError")

\* run, lines 359-386: kqueue(), open the root, walk the tree, connect, StartEv
Bootstrap ==
  /\ pc = "init"
  /\ root_fd' = NextFd(os_open(WState(inode_map, changelist, fdtab, knotes,
                                      sent, ""), 0).fdtab)
  /\ Started(
       notify(
         connect(
           fwalk(
             os_open(                                 \* self.root_fd
               os_open(WState(inode_map, changelist, fdtab, knotes, sent, ""),
                       0),                            \* self.kq = kqueue()
               RootInode),
             RootInode, ".")),
         StartEv))
  /\ conn' = IF Listening THEN "pending" ELSE conn
  /\ UNCHANGED <<fs, nextIno, nops, oplog, die, parent_queue, handled>>
  /\ UNCHANGED <<spc, ppc, rounds, sockfile, pq>>
  /\ UNCHANGED cvars

\* The descriptors kq.control can return a kevent for: None when no note is
\* active and the call times out
Ready(kn) ==
  IF \A fd \in DOMAIN kn : kn[fd].fflags = {} THEN {None}
  ELSE {fd \in DOMAIN kn : kn[fd].fflags # {}}

\* the loop without changelist.clear(): the handler appends to the
\* registrations already submitted
LoopBody_keeping(kn, fd) ==
  IF fd = None THEN WState(inode_map, changelist, fdtab, kn, sent, "")
  ELSE dispatch(
         [WState(inode_map, changelist, fdtab, [kn EXCEPT ![fd].fflags = {}],
                 sent, "")
            EXCEPT !.note = Len(handled) + 1],
         [ident |-> fd, udata |-> kn[fd].udata, fflags |-> kn[fd].fflags])

\* run, lines 391-402: the kevent read from the note of fd (EV_CLEAR resets
\* the note), changelist.clear(), and the handler
LoopBody(kn, fd) ==
  IF fd = None THEN WState(inode_map, <<>>, fdtab, kn, sent, "")
  ELSE dispatch(
         [WState(inode_map, <<>>, fdtab, [kn EXCEPT ![fd].fflags = {}], sent, "")
            EXCEPT !.note = Len(handled) + 1],
         [ident |-> fd, udata |-> kn[fd].udata, fflags |-> kn[fd].fflags])

\* The kevent of this iteration, as the loop routes it (lines 394-402)
Delivered(kn, fd) ==
  handled' =
    IF fd = None THEN handled
    ELSE Append(handled,
                [ident |-> fd, udata |-> kn[fd].udata, fflags |-> kn[fd].fflags,
                 time |-> nops,
                 as |-> IF kn[fd].udata \notin DOMAIN inode_map THEN "none"
                        ELSE IF IsDirState(inode_map[kn[fd].udata]) THEN "dir"
                        ELSE "file"])

Finish(w, quit) ==
  /\ Commit(w)
  /\ die' = (die \/ quit)
  /\ parent_queue' = IF quit THEN parent_queue - 1 ELSE parent_queue
  /\ raised' = w.err
  /\ pc' = IF w.err # "" THEN "crashed" ELSE IF quit THEN "done" ELSE "loop"

\* the end of the loop announcing the stop before and after stop()
LoopEnd_twice(w) ==
  IF w.err = "" /\ parent_queue > 0
  THEN Finish(notify(notify([stop(w) EXCEPT !.note = 0], StopEv), StopEv), TRUE)
  ELSE Finish(w, FALSE)

\* run, lines 403-413: poll the control queue; stop() and StopEv when the
\* sentinel is there
LoopEnd(w) ==
  IF w.err = "" /\ parent_queue > 0
  THEN Finish(notify([stop(w) EXCEPT !.note = 0], StopEv), TRUE)
  ELSE Finish(w, FALSE)

\* run, lines 389-413: one iteration of the event loop
Iterate ==
  /\ pc = "loop"
  /\ IF \E i \in 1..Len(changelist) : changelist[i].ident \notin DOMAIN fdtab
     THEN /\ pc' = "crashed"                         \* kevent: EBADF
          /\ raised' = "OSError"
          /\ UNCHANGED <<inode_map, changelist, fdtab, knotes, sent, die,
                         parent_queue, handled>>
     ELSE \E fd \in Ready(kq_register(knotes, changelist)) :
            /\ LoopEnd(LoopBody(kq_register(knotes, changelist), fd))
            /\ Delivered(kq_register(knotes, changelist), fd)
  /\ UNCHANGED <<fs, nextIno, nops, oplog, root_fd>>
  /\ UNCHANGED cvars
  /\ UNCHANGED svars

\* The iteration that finds the sentinel, when the close of descriptor b in
\* stop() fails: released tells whether b is gone all the same
IterateCloseFails ==
  /\ pc = "loop"
  /\ parent_queue > 0
  /\ \A i \in 1..Len(changelist) : changelist[i].ident \in DOMAIN fdtab
  /\ \E fd \in Ready(kq_register(knotes, changelist)),
        b \in {inode_map[i].fd : i \in DOMAIN inode_map},
        released \in BOOLEAN :
       /\ LoopEnd([LoopBody(kq_register(knotes, changelist), fd)
                     EXCEPT !.bad = (b :> released)])
       /\ Delivered(kq_register(knotes, changelist), fd)
  /\ UNCHANGED <<fs, nextIno, nops, oplog, root_fd>>
  /\ UNCHANGED cvars
  /\ UNCHANGED svars

\* The Supervisor puts the shutdown sentinel on the Watcher's control queue
Shutdown ==
  /\ pc = "loop"
  /\ parent_queue = 0
  /\ parent_queue' = 1
  /\ UNCHANGED <<fs, nextIno, nops, oplog, fdtab, knotes, pc, raised,
                 inode_map, changelist, root_fd, die, sent, handled>>
  /\ UNCHANGED cvars
  /\ UNCHANGED svars

\* Filesystem operations of other processes, with the vnode notes the
\* kernel posts for them
Op(op, inode, kind, src, dst) ==
  [op |-> op, inode |-> inode, kind |-> kind, src |-> src, dst |-> dst,
   tracked |-> inode \in DOMAIN inode_map,
   fd |-> IF inode \in DOMAIN inode_map THEN inode_map[inode].fd ELSE None]

EnvMay == pc = "loop" /\ nops < MaxOps
EnvFrame ==
  /\ UNCHANGED <<fdtab, pc, raised, inode_map, changelist, root_fd, die, sent,
                 parent_queue, handled>>
  /\ UNCHANGED cvars
  /\ UNCHANGED svars

\* The tree the Watcher starts on is built before it runs, breadth first
\* (every tree arises so, up to the numbering of its inodes).
BuildMay(d, n) ==
  /\ pc = "init"
  /\ \/ nextIno = RootInode + 1
     \/ fs[nextIno - 1].parent < d
     \/ fs[nextIno - 1].parent = d /\ NameRank(fs[nextIno - 1].name) < NameRank(n)

FsNew(kind, d, n) ==
  /\ BuildMay(d, n) \/ EnvMay
  /\ nextIno <= MaxInode
  /\ IsDirOnDisk(d)
  /\ ~NameTaken(d, n)
  /\ fs' = (nextIno :> [kind |-> kind, parent |-> d, name |-> n]) @@ fs
  /\ nextIno' = nextIno + 1
  /\ nops' = IF pc = "init" THEN nops ELSE nops + 1
  /\ oplog' = IF pc = "init" THEN oplog
              ELSE Append(oplog, Op("create", nextIno, kind, "",
                                    path_join(TruePath(d), n)))
  /\ knotes' = Post(knotes, d, KQ_NOTE_WRITE)
  /\ EnvFrame

FsCreate == \E d \in Live, n \in NamesFor("file") : FsNew("file", d, n)
FsMkdir == \E d \in Live, n \in NamesFor("dir") : FsNew("dir", d, n)

\* unlink(2) of a file, rmdir(2) of an empty directory
Remove(x) ==
  /\ x # RootInode
  /\ Children(x) = {}
  /\ fs' = Restrict(fs, Live \ {x})
  /\ nops' = nops + 1
  /\ oplog' = Append(oplog, Op("remove", x, fs[x].kind, TruePath(x), ""))
  /\ knotes' = Post(Post(knotes, x, KQ_NOTE_DELETE), fs[x].parent, KQ_NOTE_WRITE)
  /\ UNCHANGED nextIno
  /\ EnvFrame

FsRemove(x) == EnvMay /\ Remove(x)

FsUnlink == \E x \in Live : IsFileOnDisk(x) /\ FsRemove(x)
FsRmdir == \E x \in Live : IsDirOnDisk(x) /\ FsRemove(x)

\* rename(2) of x to the free name n in the directory d
Rename(x, d, n) ==
  /\ n \in NamesFor(fs[x].kind)
  /\ IsDirOnDisk(d)
  /\ d # x
  /\ x \notin Ancestors(d)
  /\ ~NameTaken(d, n)
  /\ fs' = [fs EXCEPT ![x].parent = d, ![x].name = n]
  /\ nops' = nops + 1
  /\ oplog' = Append(oplog, Op("rename", x, fs[x].kind, TruePath(x),
                               path_join(TruePath(d), n)))
  /\ knotes' = Post(Post(Post(knotes, x, KQ_NOTE_RENAME),
                         fs[x].parent, KQ_NOTE_WRITE), d, KQ_NOTE_WRITE)
  /\ UNCHANGED nextIno
  /\ EnvFrame

FsRename ==
  \E x \in Live \ {RootInode}, d \in Live, n \in Names :
    EnvMay /\ Rename(x, d, n)

\* The notes the kernel posts for the removal of x, on the descriptors the
\* Watcher holds when its handler returns
Vanished(w, x) ==
  [w EXCEPT !.knotes =
     [fd \in DOMAIN @ |->
        IF w.fdtab[fd] = x THEN [@[fd] EXCEPT !.fflags = @ \cup {KQ_NOTE_DELETE}]
        ELSE IF w.fdtab[fd] = fs[x].parent
        THEN [@[fd] EXCEPT !.fflags = @ \cup {KQ_NOTE_WRITE}]
        ELSE @[fd]]]

\* run, lines 391-402, while another process removes x
RacingBody(kn, fd, x) ==
  dispatch(
    [WState(inode_map, <<>>, fdtab, [kn EXCEPT ![fd].fflags = {}], sent, "")
       EXCEPT !.note = Len(handled) + 1, !.gone = {x}],
    [ident |-> fd, udata |-> kn[fd].udata, fflags |-> kn[fd].fflags])

\* The kevent of fd makes the Watcher list the directory x is in and then
\* open x: process_dir, lines 268, 282 and 296
OpensChild(kn, fd, x) ==
  /\ fd # None
  /\ KQ_NOTE_WRITE \in kn[fd].fflags
  /\ kn[fd].udata \in DOMAIN inode_map
  /\ IsDirState(inode_map[kn[fd].udata])
  /\ fdtab[inode_map[kn[fd].udata].fd] = fs[x].parent
  /\ IF fs[x].kind = "file" THEN ~ignore_file(fs[x].name)
     ELSE fs[x].name \notin IGNORE_DIRS

\* One iteration of the event loop during which x is removed (unlink(2) or
\* rmdir(2)) after its directory was listed and before x is opened
RaceRemove(x) ==
  /\ EnvMay
  /\ x # RootInode
  /\ Children(x) = {}
  /\ \A i \in 1..Len(changelist) : changelist[i].ident \in DOMAIN fdtab
  /\ \E fd \in Ready(kq_register(knotes, changelist)) :
       /\ OpensChild(kq_register(knotes, changelist), fd, x)
       /\ LoopEnd(Vanished(RacingBody(kq_register(knotes, changelist), fd, x), x))
       /\ Delivered(kq_register(knotes, changelist), fd)
  /\ fs' = Restrict(fs, Live \ {x})
  /\ nops' = nops + 1
  /\ oplog' = Append(oplog, Op("remove", x, fs[x].kind, TruePath(x), ""))
  /\ UNCHANGED <<nextIno, root_fd>>
  /\ UNCHANGED cvars
  /\ UNCHANGED svars

RaceUnlink == \E x \in Live : IsFileOnDisk(x) /\ RaceRemove(x)
RaceRmdir == \E x \in Live : IsDirOnDisk(x) /\ RaceRemove(x)

\* write(2) to a file
FsWrite ==
  \E x \in Live :
    /\ EnvMay
    /\ IsFileOnDisk(x)
    /\ nops' = nops + 1
    /\ oplog' = Append(oplog, Op("write", x, "file", TruePath(x), TruePath(x)))
    /\ knotes' = Post(knotes, x, KQ_NOTE_WRITE)
    /\ UNCHANGED <<fs, nextIno>>
    /\ EnvFrame

\* The transport before the first send_event
CommInit ==
  /\ sock = <<>>
  /\ nsent = 0
  /\ sendlog = <<>>
  /\ cfdtab = EmptyMap
  /\ rcvd = <<>>
  /\ cpc = "recv"

\* The Watcher object after __init__, before run()
WatcherInit ==
  /\ fs = (RootInode :> [kind |-> "dir", parent |-> 0, name |-> "."])
  /\ nextIno = RootInode + 1
  /\ nops = 0
  /\ oplog = <<>>
  /\ fdtab = EmptyMap
  /\ knotes = EmptyMap
  /\ pc = "init"
  /\ raised = ""
  /\ inode_map = EmptyMap
  /\ changelist = <<>>
  /\ root_fd = None
  /\ die = FALSE
  /\ sent = <<>>
  /\ parent_queue = 0
  /\ handled = <<>>

\* The Supervisor has started both children and the Processor listens
ListenerUp ==
  /\ spc = "running"
  /\ ppc = "waiting"
  /\ rounds = 0
  /\ sockfile = TRUE
  /\ pq = 0
  /\ conn = "none"

Init ==
  /\ kernel = "bsd"
  /\ CommInit
  /\ WatcherInit
  /\ ListenerUp

Next ==
  \/ Bootstrap
  \/ Iterate
  \/ Shutdown
  \/ FsCreate
  \/ FsMkdir
  \/ FsUnlink
  \/ FsRmdir
  \/ FsRename
  \/ FsWrite

Spec == Init /\ [][Next]_vars

\* The Watcher on a tree of directories that other processes only move and
\* remove, followed over more operations than Spec allows
MvMay == pc = "loop" /\ nops < MaxMoves

\* The names the directories of SpecMoves have and are given
MoveNames == {"a", "b"}

MvMkdir == \E d \in Live, n \in MoveNames : pc = "init" /\ FsNew("dir", d, n)

MvRename ==
  \E x \in Live \ {RootInode}, d \in Live, n \in MoveNames :
    MvMay /\ IsDirOnDisk(x) /\ Rename(x, d, n)

MvRmdir == \E x \in Live : MvMay /\ IsDirOnDisk(x) /\ Remove(x)

NextMoves ==
  \/ Bootstrap
  \/ Iterate
  \/ MvMkdir
  \/ MvRename
  \/ MvRmdir

SpecMoves == Init /\ [][NextMoves]_vars

\* rename(2) of the watched root directory itself, by a process outside
\* the tree: paths relative to root_fd stay as they are
FsRenameRoot ==
  /\ EnvMay
  /\ nops' = nops + 1
  /\ oplog' = Append(oplog, Op("rename", RootInode, "dir", ".", "."))
  /\ knotes' = Post(knotes, RootInode, KQ_NOTE_RENAME)
  /\ UNCHANGED <<fs, nextIno>>
  /\ EnvFrame

\* The Watcher on a tree of directories while the root is renamed
NextRoot ==
  \/ Bootstrap
  \/ Iterate
  \/ Shutdown
  \/ MvMkdir
  \/ FsRenameRoot
  \/ FsRmdir

SpecRoot == Init /\ [][NextRoot]_vars

\* The Watcher on a tree whose entries are created and, while a handler
\* runs, removed
NextRace ==
  \/ Bootstrap
  \/ Iterate
  \/ FsCreate
  \/ FsMkdir
  \/ RaceUnlink
  \/ RaceRmdir

SpecRace == Init /\ [][NextRace]_vars

\* The Watcher shut down while a close in stop() may fail
NextStop ==
  \/ Bootstrap
  \/ Iterate
  \/ IterateCloseFails
  \/ Shutdown
  \/ FsCreate
  \/ FsMkdir
  \/ FsUnlink

SpecStop == Init /\ [][NextStop]_vars

\* ------------------------------------------------- Supervisor and Processor
\* Processor.run, line 87: for i in range(12)
WaitRounds == 12

\* a removal that leaves the path in place
os_remove_failing(exists) == exists

\* os.remove / os.unlink of the rendezvous path: whether it exists afterwards
os_remove(exists) == FALSE

\* tangle-client.py, line 37: processor.start()
SupStartProcessor ==
  /\ spc = "new"
  /\ spc' = "p_started"
  /\ UNCHANGED <<ppc, rounds, sockfile, pq, conn>>
  /\ UNCHANGED <<wvars, cvars>>

\* tangle-client.py, line 40: watcher.start()
SupStartWatcher ==
  /\ spc = "p_started"
  /\ spc' = "running"
  /\ UNCHANGED <<ppc, rounds, sockfile, pq, conn>>
  /\ UNCHANGED <<wvars, cvars>>

\* the exit path without wq.put(SHUTDOWN)
SupStop_forgetting ==
  /\ spc = "running"
  /\ spc' = "stopping"
  /\ pq' = pq + 1
  /\ UNCHANGED <<ppc, rounds, sockfile, conn>>
  /\ UNCHANGED <<wvars, cvars>>

\* tangle-client.py, lines 43-50: input() returns; wq.put(SHUTDOWN) and
\* pq.put(SHUTDOWN)
SupStop ==
  /\ spc = "running"
  /\ spc' = "stopping"
  /\ parent_queue' = parent_queue + 1
  /\ pq' = pq + 1
  /\ UNCHANGED <<ppc, rounds, sockfile, conn>>
  /\ UNCHANGED <<fs, nextIno, nops, oplog, fdtab, knotes, pc, raised,
                 inode_map, changelist, root_fd, die, sent, handled>>
  /\ UNCHANGED cvars

\* tangle-client.py, line 51: watcher.join() returns when run() has ended
SupJoinWatcher ==
  /\ spc = "stopping"
  /\ pc \in {"done", "crashed"}
  /\ spc' = "w_joined"
  /\ UNCHANGED <<ppc, rounds, sockfile, pq, conn>>
  /\ UNCHANGED <<wvars, cvars>>

\* tangle-client.py, line 52: processor.join()
SupJoinProcessor ==
  /\ spc = "w_joined"
  /\ PeerGone
  /\ spc' = "p_joined"
  /\ UNCHANGED <<ppc, rounds, sockfile, pq, conn>>
  /\ UNCHANGED <<wvars, cvars>>

\* tangle-client.py, lines 54-57: os.remove(SOCKNAME), any exception logged
SupRemove ==
  /\ spc = "p_joined"
  /\ spc' = "cleaned"
  /\ sockfile' = IF sockfile THEN os_remove(sockfile) ELSE sockfile
  /\ UNCHANGED <<ppc, rounds, pq, conn>>
  /\ UNCHANGED <<wvars, cvars>>

\* Processor.run, lines 79-84: socket(), bind (EADDRINUSE when the path
\* exists), listen
ProcBind ==
  /\ spc # "new"
  /\ ppc = "init"
  /\ ppc' = IF sockfile THEN "failed" ELSE "waiting"
  /\ sockfile' = TRUE
  /\ UNCHANGED <<spc, rounds, pq, conn>>
  /\ UNCHANGED <<wvars, cvars>>

\* Processor.run, lines 87-102: one round of the wait for a connection
ProcWait ==
  /\ ppc = "waiting"
  /\ IF conn = "pending"
     THEN /\ conn' = "accepted"                      \* sock.accept()
          /\ ppc' = "connected"
          /\ UNCHANGED <<rounds, pq>>
     ELSE IF pq > 0
     THEN /\ pq' = pq - 1                            \* should_stop()
          /\ ppc' = "closed"                         \* sock.close(); return
          /\ UNCHANGED <<rounds, conn>>
     ELSE /\ rounds' = rounds + 1
          /\ ppc' = IF rounds + 1 = WaitRounds THEN "timeout" ELSE ppc
          /\ UNCHANGED <<pq, conn>>
  /\ UNCHANGED <<spc, sockfile>>
  /\ UNCHANGED <<wvars, cvars>>

\* Processor.run, lines 107-123: the receive loop; on the sentinel close
\* both sockets and unlink the rendezvous path
ProcLoop ==
  /\ ppc = "connected"
  /\ IF pq > 0
     THEN /\ pq' = pq - 1
          /\ ppc' = IF sockfile THEN "stopped" ELSE "failed"
          /\ sockfile' = IF sockfile THEN os_remove(sockfile) ELSE sockfile
     ELSE UNCHANGED <<pq, ppc, sockfile>>
  /\ UNCHANGED <<spc, rounds, conn>>
  /\ UNCHANGED <<wvars, cvars>>

\* Processor.run, lines 109-111, once the Watcher process has exited and
\* its socket is closed: select reports the connection readable, recvmsg
\* returns no data and load_event raises EOFError, which ends run()
ProcEof ==
  /\ ppc = "connected"
  /\ pc \in {"done", "crashed"}
  /\ ppc' = "crashed"
  /\ UNCHANGED <<spc, rounds, sockfile, pq, conn>>
  /\ UNCHANGED <<wvars, cvars>>

\* Watcher.run, once watcher.start() has forked it
WatcherBoot == spc \notin {"new", "p_started"} /\ Bootstrap

\* tangle-client.py before line 34; a rendezvous path may be left over
SupInit ==
  /\ spc = "new"
  /\ ppc = "init"
  /\ rounds = 0
  /\ sockfile \in BOOLEAN
  /\ pq = 0
  /\ conn = "none"

InitSup ==
  /\ kernel = "bsd"
  /\ CommInit
  /\ WatcherInit
  /\ SupInit

NextSup ==
  \/ SupStartProcessor
  \/ SupStartWatcher
  \/ SupStop
  \/ SupJoinWatcher
  \/ SupJoinProcessor
  \/ SupRemove
  \/ ProcBind
  \/ ProcWait
  \/ ProcLoop
  \/ ProcEof
  \/ WatcherBoot
  \/ Iterate

SpecSup == InitSup /\ [][NextSup]_vars

\* Every process is scheduled: while some step is possible, one is taken
FairSup == SpecSup /\ WF_vars(NextSup)

\* ------------------------------------------------------------ transport
\* The socket is socket.socket(family=AF_UNIX): a stream.  Each sendmsg
\* queues one message; the model keeps messages whole (recvmsg's 4096-byte
\* buffer is never filled by MaxSend pickled events).

\* dump_event: pickle.dumps(event._asdict()), the fields as key/value pairs
\* in the order the namedtuple declares them
dump_event(event) ==
  << <<"type", event.type>>, <<"inode", event.inode>>, <<"time", event.time>>,
     <<"name", event.name>>, <<"fd", event.fd>> >>

\* pickle.loads on received bytes: the first pickle is decoded, bytes after
\* its end are ignored
loads(data) == Head(data)

\* dict.values()
values(d) == [i \in 1..Len(d) |-> d[i][2]]

\* _make that takes the values in another order than the fields
make_swapped(v) == LocalEvent(v[1], v[3], v[2], v[4], v[5])

\* LocalEvent._make
make(v) == LocalEvent(v[1], v[2], v[3], v[4], v[5])

load_event(event_str) == make(values(loads(event_str)))

\* The sender's descriptors in the transport model: fd -> inode
SenderFds == (7 :> 2) @@ (8 :> 3)

\* sock.sendmsg([msg], anc_data): one message on the stream; a descriptor in
\* anc_data travels as the open file it refers to
sendmsg(sk, msg, anc, seq) ==
  Append(sk, [data |-> <<msg>>,
              anc |-> anc,
              files |-> [i \in 1..Len(anc) |->
                           [inode |-> SenderFds[anc[i]], seq |-> seq]],
              seq |-> seq])

send_event(sk, event, seq) ==
  sendmsg(sk, dump_event(event), anc_data(event), seq)

\* The events a Watcher builds: the three without an object, and the six
\* about a file or directory, carrying the descriptor open on its inode
SenderEvents(t) ==
  {LocalEvent(ty, NoInode, t, "", None) : ty \in {STARTED, STOPPED, SHUTDOWN}}
  \cup
  {LocalEvent(ty, SenderFds[fd], t, "a", fd) :
     ty \in {CREATE_FILE, CREATE_DIR, WRITE, DELETE, RENAME_FILE, RENAME_DIR},
     fd \in DOMAIN SenderFds}

\* The number of leading messages of sk that carry no descriptor
RECURSIVE PlainRun(_)
PlainRun(sk) ==
  IF sk = <<>> \/ Head(sk).anc # <<>> THEN 0 ELSE 1 + PlainRun(Tail(sk))

\* sock.recvmsg(4096, cmsg_len): how many queued messages one call takes.
\* Stream data is delivered across message boundaries; control data bounds
\* it.  "bsd": a message with a descriptor starts a record of the receive
\* buffer, later plain data is appended to the record, and a call reads one
\* record.  "linux": a call reads on until it has taken a message with a
\* descriptor.
Batch(k, sk) ==
  IF k = "bsd" THEN 1 + PlainRun(Tail(sk))
  ELSE IF PlainRun(sk) = Len(sk) THEN Len(sk)
  ELSE PlainRun(sk) + 1

\* the bytes, and the passed files, of a run of messages
RECURSIVE Bytes(_)
Bytes(msgs) == IF msgs = <<>> THEN <<>> ELSE Head(msgs).data \o Bytes(Tail(msgs))
RECURSIVE Files(_)
Files(msgs) == IF msgs = <<>> THEN <<>> ELSE Head(msgs).files \o Files(Tail(msgs))

\* SCM_RIGHTS on receipt: each passed file gets the lowest free descriptor
RECURSIVE install(_, _)
install(tab, files) ==
  IF files = <<>> THEN tab
  ELSE install((NextFd(tab) :> Head(files)) @@ tab, Tail(files))

\* the descriptor numbers install hands out, in order
RECURSIVE installed(_, _)
installed(tab, files) ==
  IF files = <<>> THEN <<>>
  ELSE <<NextFd(tab)>> \o installed((NextFd(tab) :> Head(files)) @@ tab, Tail(files))

\* recv_event without the sanity check
check_inode_skipped(inode, event) == TRUE

\* recv_event, lines 59-61: assert inode == event.inode
check_inode(inode, event) == inode = event.inode

\* recv_event that returns the event when the sanity check fails
recv_with_fd_lenient(event, fd, tab) ==
  IF event.type \in {CREATE_FILE, RENAME_FILE, WRITE}
     /\ check_inode(tab[fd].inode, event)
  THEN [event |-> event, f |-> fd, err |-> ""]
  ELSE [event |-> event, f |-> None, err |-> ""]

\* recv_event, lines 56-66, given the decoded event and fds[0]
recv_with_fd(event, fd, tab) ==
  IF ~check_inode(tab[fd].inode, event)
  THEN [event |-> event, f |-> None, err |-> "AssertionError"]
  ELSE IF event.type \in {CREATE_FILE, RENAME_FILE, WRITE}
  THEN [event |-> event, f |-> fd, err |-> ""]
  ELSE [event |-> event, f |-> None, err |-> ""]

\* recv_event after select: data and fds are what recvmsg returned, tab the
\* consumer's descriptor table with the received descriptors installed
recv_event(data, fds, tab) ==
  IF fds = <<>> THEN [event |-> load_event(data), f |-> None, err |-> ""]
  ELSE recv_with_fd(load_event(data), fds[1], tab)

\* Watcher.notify -> send_event(self.sock, event)
SendEvent ==
  \E event \in SenderEvents(nsent) :
    /\ nsent < MaxSend
    /\ sock' = send_event(sock, event, nsent + 1)
    /\ nsent' = nsent + 1
    /\ sendlog' = Append(sendlog, [event |-> event,
                                   anc |-> sock'[Len(sock')].anc])
    /\ UNCHANGED <<kernel, cfdtab, rcvd, cpc>>
    /\ UNCHANGED wvars
    /\ UNCHANGED svars

\* The result r of one recv_event call that took the n first messages
Returned(r, fds, n) ==
  /\ sock' = SubSeq(sock, n + 1, Len(sock))
  /\ cpc' = IF r.err = "" THEN "recv" ELSE "crashed"
  /\ rcvd' = IF r.err # "" THEN rcvd
             ELSE Append(rcvd, [event |-> r.event, f |-> r.f, fds |-> fds,
                                seq |-> sock[1].seq, n |-> n])

Received(msgs, n) ==
  /\ cfdtab' = install(cfdtab, Files(msgs))
  /\ Returned(recv_event(Bytes(msgs), installed(cfdtab, Files(msgs)),
                         install(cfdtab, Files(msgs))),
              installed(cfdtab, Files(msgs)), n)

\* Processor.run, line 111: event, f = recv_event(conn)
RecvEvent ==
  /\ cpc = "recv"
  /\ sock # <<>>
  /\ Received(SubSeq(sock, 1, Batch(kernel, sock)), Batch(kernel, sock))
  /\ UNCHANGED <<kernel, nsent, sendlog>>
  /\ UNCHANGED wvars
  /\ UNCHANGED svars

CommInitAny ==
  /\ kernel \in {"bsd", "linux"}
  /\ CommInit
  /\ WatcherInit
  /\ ListenerUp

NextComm ==
  \/ SendEvent
  \/ RecvEvent

SpecComm == CommInitAny /\ [][NextComm]_vars


\* ------------------------------------------------------------ properties
TrackedDirs == {i \in DOMAIN inode_map : IsDirState(inode_map[i])}
TrackedFiles == {i \in DOMAIN inode_map : IsFileState(inode_map[i])}

\* No note is active and no registration is queued: every notification the
\* filesystem operations so far have caused has been handled.
Quiescent ==
  /\ pc = "loop"
  /\ changelist = <<>>
  /\ \A fd \in DOMAIN knotes : knotes[fd].fflags = {}

\* C1: between two iterations of the event loop, every inode in a
\* DirState's files or dirs set is a key of inode_map.
C1_ChildrenAreKeys ==
  pc = "loop" =>
    \A d \in TrackedDirs :
      inode_map[d].files \cup inode_map[d].dirs \subseteq DOMAIN inode_map

\* C2: between two iterations of the event loop, the parent path recorded
\* for a file in d.files is d's recorded path, and the recorded path of a
\* directory in d.dirs has d's recorded path as prefix.
C2_ChildPathsFollowParent ==
  pc = "loop" =>
    \A d \in TrackedDirs :
      /\ \A f \in inode_map[d].files \cap TrackedFiles :
           inode_map[f].dirs = inode_map[d].name
      /\ \A c \in inode_map[d].dirs \cap TrackedDirs :
           startswith(inode_map[c].name, inode_map[d].name)

\* The Watcher has sent an event of this type for this inode, built after
\* the filesystem operation number `t`.
Emitted(type, inode, t) ==
  \E k \in 1..Len(sent) :
    /\ sent[k].event.type = type
    /\ sent[k].event.inode = inode
    /\ sent[k].event.time = t

\* The filesystem operation performed last, once the Watcher is in its loop
LastOp == oplog[Len(oplog)]

\* The path an inode_map entry records for the object itself (a DirState) or
\* for its parent directory (a FileState).
RecordedPrefix(i) ==
  IF IsDirState(inode_map[i]) THEN inode_map[i].name ELSE inode_map[i].dirs

Under(path, dir) == path = dir \/ startswith(path, dir \o "/")

\* C3: once the Watcher has handled every notification caused by renaming a
\* non-root directory, the renamed directory's recorded path, the recorded
\* path of every descendant DirState and the recorded parent path of every
\* descendant FileState (files directly inside it included) lie under the
\* directory's new path and no longer under its old one.
C3_RenameDirRewritesPaths ==
  ( /\ Quiescent
    /\ raised = ""
    /\ oplog # <<>>
    /\ LastOp.op = "rename"
    /\ LastOp.kind = "dir"
    /\ Emitted(RENAME_DIR, LastOp.inode, Len(oplog)) ) =>
    \A i \in DOMAIN inode_map :
      (i = LastOp.inode \/ LastOp.inode \in Ancestors(i)) =>
        /\ Under(RecordedPrefix(i), LastOp.dst)
        /\ ~Under(RecordedPrefix(i), LastOp.src)

\* An object the ignore policy leaves to be tracked: the root, or a
\* directory not named in IGNORE_DIRS or a file whose name begins with no
\* prefix in IGNORE_PATTERNS, below directories that are themselves tracked.
RECURSIVE Watched(_)
Watched(i) ==
  \/ i = RootInode
  \/ /\ i \in Live
     /\ IF fs[i].kind = "dir"
        THEN fs[i].name \notin IGNORE_DIRS
        ELSE \A p \in IGNORE_PATTERNS : ~startswith(fs[i].name, p)
     /\ Watched(fs[i].parent)

JustStarted == pc = "loop" /\ nops = 0

\* C4: when `started` has been sent after bootstrapping a tree that did not
\* change meanwhile, inode_map holds exactly one DirState per non-ignored
\* directory (the root included) and one FileState per non-ignored file, and
\* every DirState's files and dirs are the inodes of its non-ignored child
\* files and subdirectories on disk.
C4_BootstrapMirrorsTree ==
  JustStarted =>
    /\ DOMAIN inode_map = {i \in Live : Watched(i)}
    /\ \A i \in DOMAIN inode_map :
         IF IsDirOnDisk(i)
         THEN /\ IsDirState(inode_map[i])
              /\ inode_map[i].files = {f \in ChildFiles(i) : Watched(f)}
              /\ inode_map[i].dirs = {d \in ChildDirs(i) : Watched(d)}
         ELSE IsFileState(inode_map[i])

\* C4 witness: a bootstrapped tree with a tracked file and a tracked
\* subdirectory
C4_Witness ==
  /\ JustStarted
  /\ inode_map[RootInode].files # {}
  /\ inode_map[RootInode].dirs # {}

\* C4 witness of the ignore policy: a bootstrapped tree holding an ignored
\* object next to a tracked one
C4_IgnoredSeen ==
  /\ JustStarted
  /\ \E i \in Live : ~Watched(i)
  /\ Cardinality(DOMAIN inode_map) > 1

\* The descriptors the Watcher process holds on files and directories of
\* the tree, apart from root_fd (the kqueue and the socket refer to 0).
VnodeFds == {fd \in DOMAIN fdtab : fdtab[fd] # 0 /\ fd # root_fd}
RecordedFds == {inode_map[i].fd : i \in DOMAIN inode_map}

\* C5: between event-loop iterations the descriptors the Watcher holds on
\* the tree are exactly the ones recorded in inode_map, one per entry, each
\* open and referring to the entry's inode.
C5_OneDescriptorPerEntry ==
  pc = "loop" =>
    /\ VnodeFds = RecordedFds
    /\ \A i \in DOMAIN inode_map : fdtab[inode_map[i].fd] = i

\* C6: no descriptor number is recorded in two inode_map entries.
C6_DescriptorsDistinct ==
  \A i, j \in DOMAIN inode_map :
    inode_map[i].fd = inode_map[j].fd => i = j

\* C6 witness: a descriptor number closed by unregister has been handed out
\* again and is recorded for an object registered later
C6_Witness ==
  \E k \in 1..Len(sent) :
    /\ sent[k].event.type = DELETE
    /\ sent[k].event.inode \notin DOMAIN inode_map
    /\ sent[k].event.fd \in RecordedFds

\* C10: a rename_file event built after a rename of its file carries the
\* file's new full path, in whatever order the file's rename notification
\* and the parents' write notifications were delivered.
C10_RenameFileNamesNewPath ==
  \A k \in 1..Len(sent) :
    ( /\ sent[k].event.type = RENAME_FILE
      /\ sent[k].event.time > 0
      /\ oplog[sent[k].event.time].op = "rename"
      /\ oplog[sent[k].event.time].inode = sent[k].event.inode ) =>
      sent[k].event.name = oplog[sent[k].event.time].dst

Events(log) == [k \in 1..Len(log) |-> log[k].event]

\* C7: every event sent with send_event is returned by exactly one
\* recv_event call, in send order: once the consumer has read the socket
\* empty, the events it was handed are the events that were sent.
C7_EverySentEventReceived ==
  (sock = <<>> /\ cpc = "recv") => Events(rcvd) = Events(sendlog)

\* C8: whenever recv_event returns an event from a call that received a
\* descriptor, the descriptor refers to the event's inode, and a file handle
\* handed to the consumer is of the descriptor sent with that very event.
C8_DescriptorMatchesEvent ==
  \A k \in 1..Len(rcvd) :
    /\ rcvd[k].fds # <<>> => cfdtab[rcvd[k].fds[1]].inode = rcvd[k].event.inode
    /\ rcvd[k].f # None => cfdtab[rcvd[k].f].seq = rcvd[k].seq

\* C8 witness: an event was handed over with its file handle by a call that
\* read more than one message
C8_Witness ==
  \E k \in 1..Len(rcvd) : rcvd[k].f # None /\ rcvd[k].n >= 2

\* C8 witness of the sanity check: a call received a descriptor that does
\* not refer to the decoded event's inode, and the consumer stopped
C8_AssertFired == cpc = "crashed"

\* C9: send_event passes exactly the event's fd as ancillary data when the
\* type is create_file, write, rename_file or rename_dir, and no ancillary
\* data for started, stopped, create_dir, delete and shutdown.
C9_AncillaryIffFileType ==
  \A k \in 1..Len(sendlog) :
    sendlog[k].anc =
      IF sendlog[k].event.type \in {"create_file", "write", "rename_file", "rename_dir"}
      THEN <<sendlog[k].event.fd>>
      ELSE <<>>

\* C9 witness: a rename_dir event went out with its descriptor and a
\* create_dir event without one
C9_Witness ==
  \E j, k \in 1..Len(sendlog) :
    /\ sendlog[j].event.type = RENAME_DIR /\ sendlog[j].anc # <<>>
    /\ sendlog[k].event.type = CREATE_DIR /\ sendlog[k].anc = <<>>

\* C11: a rename_dir event built after a rename of its directory carries the
\* directory's new full path, also when the directory was moved to another
\* parent directory.
C11_RenameDirNamesNewPath ==
  \A k \in 1..Len(sent) :
    ( /\ sent[k].event.type = RENAME_DIR
      /\ sent[k].event.time > 0
      /\ oplog[sent[k].event.time].op = "rename"
      /\ oplog[sent[k].event.time].inode = sent[k].event.inode ) =>
      sent[k].event.name = oplog[sent[k].event.time].dst

\* The Watcher has handled, as a directory event, a write notification of
\* directory d that was read after the filesystem operation number t.
WriteReconciled(d, t) ==
  \E k \in 1..Len(handled) :
    /\ handled[k].udata = d
    /\ handled[k].as = "dir"
    /\ KQ_NOTE_WRITE \in handled[k].fflags
    /\ handled[k].time >= t

\* The directory a path lay in, as the tree is now
ParentOf(path) == Walk(path_dirname(path))

\* The last operation renamed or moved a tracked file between watched
\* directories to a name that is not ignored, and the write notifications
\* of both parents were reconciled.
FileMoveReconciled ==
  /\ Quiescent
  /\ raised = ""
  /\ oplog # <<>>
  /\ LastOp.op = "rename"
  /\ LastOp.kind = "file"
  /\ LastOp.tracked
  /\ \A p \in IGNORE_PATTERNS : ~startswith(path_basename(LastOp.dst), p)
  /\ {ParentOf(LastOp.src), ParentOf(LastOp.dst)} \subseteq TrackedDirs
  /\ WriteReconciled(ParentOf(LastOp.src), Len(oplog))
  /\ WriteReconciled(ParentOf(LastOp.dst), Len(oplog))

\* C12: after a tracked file was renamed in place or moved between two
\* watched directories and both parents' write notifications were
\* reconciled, its entry has the same key and descriptor, its recorded name
\* and parent path are those of the new location, it is in the new parent's
\* files and not in the old parent's, and no create_file or delete event was
\* sent for it.
C12_MovedFileKeepsEntry ==
  FileMoveReconciled =>
    /\ LastOp.inode \in TrackedFiles
    /\ inode_map[LastOp.inode].fd = LastOp.fd
    /\ inode_map[LastOp.inode].name = path_basename(LastOp.dst)
    /\ inode_map[LastOp.inode].dirs = path_dirname(LastOp.dst)
    /\ LastOp.inode \in inode_map[ParentOf(LastOp.dst)].files
    /\ ParentOf(LastOp.src) # ParentOf(LastOp.dst) =>
         LastOp.inode \notin inode_map[ParentOf(LastOp.src)].files
    /\ ~Emitted(CREATE_FILE, LastOp.inode, Len(oplog))
    /\ ~Emitted(DELETE, LastOp.inode, Len(oplog))

\* This step handled a write notification of the tracked directory d, and
\* the handler returned (it reached process_dir and nothing was raised).
ReconciledNow(d) ==
  /\ raised' = ""
  /\ Len(handled') = Len(handled) + 1
  /\ handled'[Len(handled')].udata = d
  /\ handled'[Len(handled')].as = "dir"
  /\ KQ_NOTE_WRITE \in handled'[Len(handled')].fflags
  /\ KQ_NOTE_DELETE \notin handled'[Len(handled')].fflags

\* The positions of the events this step sent about inode x
SentNow(x) ==
  {k \in (Len(sent) + 1)..Len(sent') : sent'[k].event.inode = x}

\* The objects in directory d that the ignore policy leaves to be tracked
\* and the Watcher does not know yet
NewIn(d) ==
  {x \in Children(d) \ DOMAIN inode_map :
     IF fs[x].kind = "dir" THEN fs[x].name \notin IGNORE_DIRS
     ELSE \A p \in IGNORE_PATTERNS : ~startswith(fs[x].name, p)}

\* What reconciling d must have done for the new object x
CreatedRight(d, x) ==
  /\ x \in DOMAIN inode_map'
  /\ Cardinality(SentNow(x)) = 1
  /\ \A k \in SentNow(x) :
       /\ sent'[k].event.type = IF fs[x].kind = "dir" THEN CREATE_DIR ELSE CREATE_FILE
       /\ sent'[k].event.name = IF fs[x].kind = "dir" THEN inode_map'[x].name ELSE fs[x].name
  /\ IF fs[x].kind = "dir"
     THEN IsDirState(inode_map'[x]) /\ x \in inode_map'[d].dirs
     ELSE IsFileState(inode_map'[x]) /\ x \in inode_map'[d].files
  /\ Cardinality({k \in 1..Len(changelist') : changelist'[k].udata = x}) = 1
  /\ \A k \in 1..Len(changelist') :
       changelist'[k].udata = x => changelist'[k].ident = inode_map'[x].fd

DeleteHandledNow(x) ==
  /\ Len(handled') = Len(handled) + 1
  /\ handled'[Len(handled')].udata = x
  /\ handled'[Len(handled')].as \in {"dir", "file"}
  /\ KQ_NOTE_DELETE \in handled'[Len(handled')].fflags

\* What handling the delete notification of x must have done
DeletedRight(x) ==
  /\ x \notin DOMAIN inode_map'
  /\ inode_map[x].fd \notin DOMAIN fdtab'
  /\ Cardinality({k \in SentNow(x) : sent'[k].event.type = DELETE}) = 1
  /\ \A k \in SentNow(x) :
       sent'[k].event.type = DELETE => sent'[k].event.name = inode_map[x].name

\* C14: handling a delete notification for a tracked file or directory
\* removes the inode's entry from inode_map, closes its descriptor and emits
\* exactly one delete event with that inode and the name recorded for it.
C14_DeleteHandled ==
  [][\A x \in DOMAIN inode_map : DeleteHandledNow(x) => DeletedRight(x)]_vars

\* The inodes removed from the tree since `started`
Deleted == {oplog[k].inode : k \in {j \in 1..Len(oplog) : oplog[j].op = "remove"}}

\* Tracked objects were deleted, nothing else happened to the tree, and
\* every notification has been processed.
DeletesProcessed ==
  /\ Quiescent
  /\ raised = ""
  /\ oplog # <<>>
  /\ \A k \in 1..Len(oplog) : oplog[k].op = "remove" /\ oplog[k].tracked

\* C15: after tracked files or directories are deleted and all resulting
\* notifications have been processed, no deleted inode is a key of inode_map
\* or a member of a DirState's files or dirs, and the entries of the objects
\* that were not deleted are still present.
C15_DeletedForgotten ==
  DeletesProcessed =>
    /\ Deleted \cap DOMAIN inode_map = {}
    /\ \A d \in TrackedDirs :
         Deleted \cap (inode_map[d].files \cup inode_map[d].dirs) = {}
    /\ \A x \in Live : Watched(x) => x \in DOMAIN inode_map

\* The components of a path
RECURSIVE Components(_)
Components(p) ==
  IF rfind_sep(p) = 0 THEN {p} \ {""}
  ELSE ({path_basename(p)} \ {""}) \cup Components(SubSeq(p, 1, rfind_sep(p) - 1))

\* A path the ignore policy excludes: below or at an ignored directory, or
\* (for a file) a basename with an ignored prefix
IgnoredDirPath(p) == Components(p) \cap IGNORE_DIRS # {}
IgnoredFileName(n) == \E q \in IGNORE_PATTERNS : startswith(path_basename(n), q)

FileEventTypes == {CREATE_FILE, WRITE, RENAME_FILE}

\* C16: after bootstrap and after every later rescan, no recorded directory
\* path has a component in IGNORE_DIRS, no FileState has a name beginning
\* with a prefix in IGNORE_PATTERNS or a parent path through an ignored
\* directory, and no event reports such a directory or file.
C16_IgnoredNeverTracked ==
  pc = "loop" =>
    /\ \A d \in TrackedDirs : ~IgnoredDirPath(inode_map[d].name)
    /\ \A f \in TrackedFiles :
         /\ ~IgnoredFileName(inode_map[f].name)
         /\ ~IgnoredDirPath(inode_map[f].dirs)
    /\ \A k \in 1..Len(sent) :
         /\ ~IgnoredDirPath(sent[k].event.name)
         /\ sent[k].event.type \in FileEventTypes =>
              ~IgnoredFileName(sent[k].event.name)

\* The Watcher between two loop iterations, as process_dir finds it
Now == WState(inode_map, changelist, fdtab, knotes, sent, "")

\* w2 is w1 as far as inode_map, the changelist and the events sent go
SameRecords(w1, w2) ==
  /\ w2.err = ""
  /\ w2.inode_map = w1.inode_map
  /\ w2.changelist = w1.changelist
  /\ w2.sent = w1.sent

\* process_dir(dir_inode) on w1, the result of a first process_dir(dir_inode)
SecondIsNoop(w1, dir_inode) ==
  w1.err = "" /\ dir_inode \in DOMAIN w1.inode_map =>
    SameRecords(w1, process_dir(w1, dir_inode))

\* C17: process_dir run twice on the same directory with no filesystem
\* change in between: the second call leaves inode_map and the changelist
\* as the first call left them and sends no event.
C17_ProcessDirIdempotent ==
  pc = "loop" =>
    \A d \in TrackedDirs : SecondIsNoop(process_dir(Now, d), d)

\* process_dir(dir_inode) on w changed inode_map, queued a registration and
\* sent an event
DidWork(w1) ==
  /\ w1.err = ""
  /\ w1.inode_map # inode_map
  /\ Len(w1.changelist) > Len(changelist)
  /\ Len(w1.sent) > Len(sent)

\* C17 witness: a directory whose first reconciliation has work to do (a
\* child was added and another removed since it was last reconciled)
C17_Witness ==
  /\ pc = "loop"
  /\ \E d \in TrackedDirs :
       /\ Children(d) \ DOMAIN inode_map # {}
       /\ (inode_map[d].files \cup inode_map[d].dirs) \ Children(d) # {}
       /\ DidWork(process_dir(Now, d))

\* load_event(dump_event(event)) against event, field by field
RoundTrip(event, back) ==
  /\ DOMAIN back = DOMAIN event
  /\ back.type = event.type
  /\ back.inode = event.inode
  /\ back.time = event.time
  /\ back.name = event.name

\* C18: for every LocalEvent E, load_event(dump_event(E)) is a LocalEvent
\* equal to E on type, inode, time and name.
C18_DumpLoadRoundTrip ==
  \A k \in 1..Len(sendlog) :
    RoundTrip(sendlog[k].event, load_event(<<dump_event(sendlog[k].event)>>))

\* C18 witness: events with and without an object have been dumped, with
\* different inodes and times
C18_Witness ==
  /\ Len(sendlog) = MaxSend
  /\ \E i, j \in 1..Len(sendlog) :
       /\ sendlog[i].event.type = STARTED
       /\ sendlog[j].event.type = RENAME_FILE
       /\ sendlog[j].event.inode # sendlog[j].event.time
       /\ sendlog[j].event.fd # None

\* The positions in sent of the events emitted while handling the m-th
\* delivered notification
EmittedFor(m) == {k \in 1..Len(sent) : sent[k].note = m}

\* C19: for two kernel notifications delivered for the same inode, every
\* event emitted for the earlier one is sent before any event emitted for
\* the later one.
C19_NotificationOrderKept ==
  \A m, n \in 1..Len(handled) :
    (m < n /\ handled[m].udata = handled[n].udata) =>
      \A i \in EmittedFor(m), j \in EmittedFor(n) : i < j

\* C19 witness: two notifications for one inode were delivered and each had
\* an event emitted
C19_Witness ==
  \E m, n \in 1..Len(handled) :
    /\ m < n
    /\ handled[m].udata = handled[n].udata
    /\ EmittedFor(m) # {}
    /\ EmittedFor(n) # {}

\* run() has left the loop and StopEv was sent
Stopped ==
  /\ pc = "done"
  /\ \E k \in 1..Len(sent) : sent[k].event.type = STOPPED

\* C20: once the shutdown sentinel is on the control queue while the
\* Watcher is in its event loop, the Watcher eventually sends `stopped` and
\* leaves the loop: run() never ends with the sentinel still on the queue
\* and no `stopped` sent.
C20_SentinelStops == (parent_queue > 0 /\ pc # "loop") => Stopped

\* The descriptor whose kevent this step handled, None after a timeout
DeliveredNow ==
  IF Len(handled') = Len(handled) THEN None ELSE handled'[Len(handled')].ident

\* stop() on w, the Watcher as the handlers of this iteration left it:
\* every recorded descriptor is open when stop() reaches it and recorded
\* once, so that its close is attempted exactly once, and none is open
\* afterwards.
ClosedOnce(w) ==
  /\ inode_map' = w.inode_map
  /\ \A i \in DOMAIN w.inode_map :
       /\ w.inode_map[i].fd \in DOMAIN w.fdtab
       /\ w.inode_map[i].fd \notin DOMAIN fdtab'
       /\ \A j \in DOMAIN w.inode_map :
            w.inode_map[j].fd = w.inode_map[i].fd => i = j

\* C21: when the Watcher exits after receiving the shutdown sentinel, every
\* descriptor recorded in inode_map has been closed, by one close each.
C21_StopClosesRecorded ==
  [][pc' = "done" =>
       ClosedOnce(LoopBody(kq_register(knotes, changelist), DeliveredNow))]_vars

\* C21 witness: the Watcher has exited on the sentinel with entries for a
\* file and two directories, after handling a notification
C21_Witness ==
  /\ pc = "done"
  /\ handled # <<>>
  /\ TrackedFiles # {}
  /\ Cardinality(TrackedDirs) >= 2
  /\ RecordedFds \cap DOMAIN fdtab = {}

\* C22: if the consumer is not listening when the Watcher first tries to
\* connect, the Watcher does not fail on that unsuccessful attempt (it
\* retries until a deadline).
C22_ConnectRetries ==
  [][(pc = "init" /\ pc' # "init" /\ ~Listening) =>
       raised' \notin {"ConnectionRefusedError", "FileNotFoundError"}]_vars

\* C23: after the Supervisor's teardown (sentinels sent, both children
\* joined, removal attempted) the rendezvous socket path does not exist,
\* whichever way the Processor exited.
C23_SocketPathRemoved == spc = "cleaned" => ~sockfile

\* C23 witness: teardown completed after the Processor exited in each of
\* the ways that leave the path behind or remove it; this is the one where
\* it was shut down while waiting for a connection
C23_Witness == spc = "cleaned" /\ ppc = "closed" /\ pc = "crashed"

\* w1 is w0 with inode_map[inode] set to state and one registration
\* (ident fd, udata inode) appended to the changelist, nothing else changed
RegisteredAs(w0, w1, inode, state) ==
  /\ DOMAIN w1.inode_map = DOMAIN w0.inode_map \cup {inode}
  /\ w1.inode_map[inode] = state
  /\ \A i \in DOMAIN w0.inode_map \ {inode} : w1.inode_map[i] = w0.inode_map[i]
  /\ w1.changelist = w0.changelist \o <<[ident |-> state.fd, udata |-> inode]>>
  /\ w1.fdtab = w0.fdtab
  /\ w1.sent = w0.sent

\* C24: register_dir(fd, name, inode[, files, dirs]) and
\* register_file(fd, name, inode, dir) set inode_map[inode] to an entry with
\* exactly the given fd, name and child sets / parent (empty sets when
\* files and dirs are omitted) and append exactly one registration with
\* ident fd and udata inode to the changelist.
C24_RegisterRecordsAndQueues ==
  pc = "loop" =>
    \A x \in Live, fd \in {NextFd(fdtab), NextFd(fdtab) + 1} :
      /\ RegisteredAs(Now, register_dir(Now, fd, TruePath(x), x, {}, {}), x,
                      [fd |-> fd, name |-> TruePath(x), files |-> {}, dirs |-> {}])
      /\ RegisteredAs(Now,
                      register_dir(Now, fd, TruePath(x), x, ChildFiles(x), ChildDirs(x)),
                      x,
                      [fd |-> fd, name |-> TruePath(x), files |-> ChildFiles(x),
                       dirs |-> ChildDirs(x)])
      /\ RegisteredAs(Now,
                      register_file(Now, fd, fs[x].name, x, path_dirname(TruePath(x))),
                      x,
                      [fd |-> fd, name |-> fs[x].name, dirs |-> path_dirname(TruePath(x))])

\* C24 witness: with registrations already queued, there is an object the
\* Watcher has no entry for and one whose entry a registration replaces
C24_Witness ==
  /\ pc = "loop"
  /\ changelist # <<>>
  /\ Live \ DOMAIN inode_map # {}
  /\ \E x \in Live \cap DOMAIN inode_map : ChildFiles(x) # {} /\ ChildDirs(x) # {}

\* This step handled a rename notification of the root directory's
\* watched descriptor.
RootRenameNow ==
  /\ Len(handled') = Len(handled) + 1
  /\ handled'[Len(handled')].udata = RootInode
  /\ handled'[Len(handled')].ident = inode_map[RootInode].fd
  /\ KQ_NOTE_RENAME \in handled'[Len(handled')].fflags

\* C25: a rename notification delivered for the root directory's watched
\* descriptor never invokes rename_dir (whose listing of the root's parent
\* path would raise) and never produces a rename_dir event.
C25_RootRenameIgnored ==
  [][RootRenameNow =>
       /\ raised' = ""
       /\ \A k \in SentNow(RootInode) : sent'[k].event.type # RENAME_DIR]_vars

\* The children listed in directory d that were keys of inode_map when
\* this step began
KnownIn(d) == Children(fdtab[inode_map[d].fd]) \cap DOMAIN inode_map

\* The step sent no create event for x and left x's descriptor and child
\* sets as they were
KeptQuietly(x) ==
  /\ \A k \in SentNow(x) : sent'[k].event.type \notin {CREATE_FILE, CREATE_DIR}
  /\ x \in DOMAIN inode_map'
  /\ inode_map'[x].fd = inode_map[x].fd
  /\ IsDirState(inode_map[x]) =>
       /\ IsDirState(inode_map'[x])
       /\ inode_map'[x].files = inode_map[x].files
       /\ inode_map'[x].dirs = inode_map[x].dirs

\* C26: directory-content reconciliation emits create_file / create_dir
\* only for children that were not keys of inode_map when it began; a child
\* already in inode_map keeps its entry, descriptor and child sets and
\* produces no create event.
C26_KnownChildrenNotRecreated ==
  [][\A d \in TrackedDirs :
       ReconciledNow(d) => \A x \in KnownIn(d) \ {d} : KeptQuietly(x)]_vars

\* This step handled a kevent while another process removed an entry of
\* the directory being reconciled
RacedNow ==
  /\ Len(handled') = Len(handled) + 1
  /\ Len(oplog') = Len(oplog) + 1
  /\ oplog'[Len(oplog')].op = "remove"

\* The directory reconciled in this step no longer lists x as a child
AbsentNow(x) ==
  \A d \in DOMAIN inode_map' :
    IsDirState(inode_map'[d]) /\ d = handled'[Len(handled')].udata =>
      x \notin inode_map'[d].files \cup inode_map'[d].dirs

\* C27: when a child (file or subdirectory) listed during directory-content
\* reconciliation has disappeared by the time it is opened, the not-found
\* error is swallowed: the child is treated as absent for this pass and the
\* Watcher keeps running.
C27_VanishedChildSwallowed ==
  [][RacedNow =>
       /\ raised' = ""
       /\ pc' = "loop"
       /\ AbsentNow(oplog'[Len(oplog')].inode)]_vars

\* This step handled a notification of the tracked directory d that carries
\* both the delete and the write flag
DeleteWriteNow(d) ==
  /\ DeleteHandledNow(d)
  /\ handled'[Len(handled')].as = "dir"
  /\ KQ_NOTE_WRITE \in handled'[Len(handled')].fflags

\* C28: when a directory notification carries both the delete and the write
\* flag, the write part performs no content reconciliation: no create event
\* is sent, the changelist stays empty and inode_map loses the directory's
\* entry and is otherwise untouched.
C28_WriteAfterDeleteSkipped ==
  [][\A d \in TrackedDirs :
       DeleteWriteNow(d) =>
         /\ \A k \in (Len(sent) + 1)..Len(sent') :
              sent'[k].event.type \notin {CREATE_FILE, CREATE_DIR}
         /\ changelist' = <<>>
         /\ DOMAIN inode_map' \subseteq DOMAIN inode_map
         /\ raised' = "" => d \notin DOMAIN inode_map'
         /\ KQ_NOTE_RENAME \notin handled'[Len(handled')].fflags =>
              /\ raised' = ""
              /\ inode_map' = Restrict(inode_map, DOMAIN inode_map \ {d})]_vars

\* A directory's delete-and-write notification was handled and the Watcher
\* runs on
C28_Witness ==
  /\ pc = "loop"
  /\ handled # <<>>
  /\ handled[Len(handled)].as = "dir"
  /\ {KQ_NOTE_DELETE, KQ_NOTE_WRITE} \subseteq handled[Len(handled)].fflags
  /\ handled[Len(handled)].udata \notin DOMAIN inode_map

\* The children process_dir observes in the directory behind descriptor fd:
\* those listed and not left out by the ignore policy
Observed(fd) ==
  {x \in Children(fdtab[fd]) :
     IF fs[x].kind = "dir" THEN fs[x].name \notin IGNORE_DIRS
     ELSE ~IgnoredFileName(fs[x].name)}

\* The children directory e has recorded now and no longer has in w
Dropped(w, e) ==
  IF IsDirState(w.inode_map[e])
  THEN (inode_map[e].files \cup inode_map[e].dirs)
         \ (w.inode_map[e].files \cup w.inode_map[e].dirs)
  ELSE {}

\* w, the outcome of a process_dir, has every key of inode_map, every
\* descriptor recorded in inode_map is still open on its inode, and a child
\* missing from a directory's sets is one no longer observed in it
KeepsEntries(w) ==
  /\ DOMAIN inode_map \subseteq DOMAIN w.inode_map
  /\ \A x \in DOMAIN inode_map :
       inode_map[x].fd \in DOMAIN fdtab =>
         /\ inode_map[x].fd \in DOMAIN w.fdtab
         /\ w.fdtab[inode_map[x].fd] = fdtab[inode_map[x].fd]
  /\ \A e \in TrackedDirs :
       Dropped(w, e) \cap Observed(inode_map[e].fd) = {}

\* C29: directory-content reconciliation never removes a key from
\* inode_map and never closes a descriptor recorded in inode_map; children
\* no longer observed are removed from the directory's files / dirs sets
\* only.
C29_ProcessDirKeepsEntries ==
  pc = "loop" => \A d \in TrackedDirs : KeepsEntries(process_dir(Now, d))

\* C29 witness: reconciling a directory drops a child that has left it, and
\* the child's entry and descriptor stay
C29_Witness ==
  /\ pc = "loop"
  /\ \E d \in TrackedDirs :
       \E x \in Dropped(process_dir(Now, d), d) :
         /\ x \in DOMAIN inode_map
         /\ inode_map[x].fd \in DOMAIN fdtab

\* This step handled a rename notification, without the delete flag, of
\* the tracked file x
FileRenameNow(x) ==
  /\ Len(handled') = Len(handled) + 1
  /\ handled'[Len(handled')].udata = x
  /\ handled'[Len(handled')].as = "file"
  /\ KQ_NOTE_RENAME \in handled'[Len(handled')].fflags
  /\ KQ_NOTE_DELETE \notin handled'[Len(handled')].fflags

\* The note the kevent of this step came from is still registered for x on
\* the same open descriptor
StillWatched(x, ident) ==
  /\ ident \in DOMAIN fdtab'
  /\ fdtab'[ident] = fdtab[ident]
  /\ ident \in DOMAIN knotes'
  /\ knotes'[ident].udata = x

\* C30: a rename notification on a tracked file does not unregister it:
\* after the handler the inode is in inode_map with the same descriptor,
\* name and parent, the changelist holds no new registration, and the
\* file's note stays registered, so that later write and delete
\* notifications of the inode are handled.
C30_FileRenameKeepsEntry ==
  [][\A x \in TrackedFiles :
       FileRenameNow(x) =>
         /\ x \in DOMAIN inode_map'
         /\ inode_map'[x] = inode_map[x]
         /\ changelist' = <<>>
         /\ pc' = "loop" => StillWatched(x, handled'[Len(handled')].ident)]_vars

\* C30 witness: after the rename notification of a file was handled, a
\* later write or delete notification of the same inode was handled as a
\* file's
C30_Witness ==
  \E i, j \in 1..Len(handled) :
    /\ i < j
    /\ handled[i].as = "file"
    /\ handled[i].fflags = {KQ_NOTE_RENAME}
    /\ handled[j].udata = handled[i].udata
    /\ handled[j].as = "file"
    /\ handled[j].fflags \cap {KQ_NOTE_WRITE, KQ_NOTE_DELETE} # {}
    /\ \E k \in 1..Len(sent) :
         /\ sent[k].note = j
         /\ sent[k].event.inode = handled[i].udata
         /\ sent[k].event.type \in {WRITE, DELETE}

\* This step is one iteration of the event loop
IterationNow ==
  /\ pc = "loop"
  /\ nops' = nops
  /\ parent_queue' <= parent_queue

\* The registration changelist[i] is in the kernel after this step, unless
\* a later registration replaced it or its descriptor was closed meanwhile
SubmittedNow(i) ==
  (/\ changelist[i].ident \in DOMAIN fdtab'
   /\ \A j \in (i + 1)..Len(changelist) :
        changelist[j].ident # changelist[i].ident)
    => /\ changelist[i].ident \in DOMAIN knotes'
       /\ knotes'[changelist[i].ident].udata = changelist[i].udata

\* The handler of this step queues no registration: the call timed out or
\* returned the kevent of a file or of an inode no longer tracked
QueuesNothingNow ==
  \/ handled' = handled
  \/ handled'[Len(handled')].as \in {"file", "none"}

\* C31: every registration appended to the changelist is submitted to the
\* kernel at the start of the next event-loop iteration and only then: the
\* changelist is emptied by the submission, so that after an iteration
\* whose handler queues nothing it is empty.
C31_ChangelistFlushedOnce ==
  [][IterationNow =>
       /\ \A i \in 1..Len(changelist) : SubmittedNow(i)
       /\ QueuesNothingNow => changelist' = <<>>]_vars

\* C31 witness: an object created while the Watcher runs was registered by
\* one iteration and its registration submitted by a later one, which left
\* the changelist empty
C31_Witness ==
  /\ pc = "loop"
  /\ changelist = <<>>
  /\ \E k \in 1..Len(oplog) :
       /\ oplog[k].op = "create"
       /\ oplog[k].inode \in DOMAIN inode_map
       /\ inode_map[oplog[k].inode].fd \in DOMAIN knotes
       /\ knotes[inode_map[oplog[k].inode].fd].udata = oplog[k].inode

\* This iteration handled the kevent of a tracked file whose descriptor was
\* open, and ended with OSError: the handler closes nothing but that
\* descriptor, so the error is the one sendmsg raised in notify
SendFailedNow ==
  /\ IterationNow
  /\ Len(handled') = Len(handled) + 1
  /\ handled'[Len(handled')].as = "file"
  /\ inode_map[handled'[Len(handled')].udata].fd \in DOMAIN fdtab
  /\ raised' = "OSError"

\* C32: when sending an event fails while the Watcher is in its event
\* loop, the Watcher emits `stopped` (the Processor is listening, so the
\* send arrives) and then exits.
C32_SendFailureEmitsStopped ==
  [][SendFailedNow =>
       /\ pc' \in {"done", "crashed"}
       /\ sent' # <<>>
       /\ sent'[Len(sent')].event.type = STOPPED]_vars

\* The messages the next recvmsg call takes
NextBatch == SubSeq(sock, 1, Batch(kernel, sock))

\* In this step recv_event ran and the first descriptor it received does
\* not refer to the inode of the event it decoded
MismatchNow ==
  /\ cpc = "recv"
  /\ sock # <<>>
  /\ Len(sock') < Len(sock)
  /\ Files(NextBatch) # <<>>
  /\ Files(NextBatch)[1].inode # load_event(Bytes(NextBatch)).inode

\* C33: when the descriptor received with an event does not refer to the
\* event's inode, recv_event fails with an assertion: the event is not
\* returned to the consumer, and the consumer receives nothing more on the
\* connection.
C33_MismatchStopsConsumer ==
  [][/\ MismatchNow => rcvd' = rcvd /\ cpc' = "crashed"
     /\ cpc = "crashed" =>
          /\ cpc' = "crashed"
          /\ rcvd' = rcvd
          /\ Len(sock') >= Len(sock)]_vars

\* C33 witness: the assertion has fired, no event was returned, and a
\* message sent since stays unread
C33_Witness ==
  /\ cpc = "crashed"
  /\ rcvd = <<>>
  /\ sock # <<>>

\* The entries of inode_map whose descriptor is open
StillOpen == {i \in DOMAIN inode_map : inode_map[i].fd \in DOMAIN fdtab}

\* C34: during Watcher.stop a failure to close one tracked descriptor does
\* not abort the teardown: every other descriptor in inode_map is closed
\* and the stop flag (die) is set afterwards.
C34_CloseFailureTolerated ==
  pc = "done" => die /\ Cardinality(StillOpen) <= 1

\* C34 witness: the Watcher has exited with one descriptor left open by a
\* failed close, and descriptors recorded before and after it are closed
C34_Witness ==
  /\ pc = "done"
  /\ die
  /\ \E i \in StillOpen :
       \E j, k \in DOMAIN inode_map \ StillOpen : j < i /\ i < k

\* This iteration handled the kevent of a tracked file whose recorded
\* descriptor was open when the handler began
FileHandledNow ==
  /\ IterationNow
  /\ Len(handled') = Len(handled) + 1
  /\ handled'[Len(handled')].as = "file"
  /\ inode_map[handled'[Len(handled')].udata].fd \in DOMAIN fdtab

\* C35: every descriptor the Watcher attaches to an event as ancillary
\* data is open at the moment of sending, also when one file notification
\* carries both the delete and the write flag: no send of a file handler
\* fails with OSError on a closed descriptor.
C35_AttachedDescriptorsOpen ==
  [][FileHandledNow => raised' # "OSError"]_vars

\* This step is run() up to and including the send of `started`
StartedNow == pc = "init" /\ pc' = "loop"

\* This step is a filesystem operation on a tracked object, made while the
\* Watcher is in its loop
TrackedChangeNow ==
  /\ pc = "loop"
  /\ Len(oplog') = Len(oplog) + 1
  /\ oplog'[Len(oplog')].tracked

\* C36: when `started` is sent, every registration queued during bootstrap
\* has been submitted to the kernel, so that a change made to a tracked file
\* or directory after `started` leaves a notification pending for the
\* Watcher.
C36_RegisteredBeforeStarted ==
  [][/\ StartedNow =>
          /\ changelist' = <<>>
          /\ \A i \in DOMAIN inode_map' : inode_map'[i].fd \in DOMAIN knotes'
     /\ TrackedChangeNow =>
          \E fd \in DOMAIN knotes' :
            /\ knotes'[fd].udata = oplog'[Len(oplog')].inode
            /\ knotes'[fd].fflags # {}]_vars

\* C37: `started` is the first event the Watcher sends and `stopped` the
\* last: each is sent at most once, and no create, write, rename or delete
\* event is sent before `started` or after `stopped`.
C37_StartedFirstStoppedLast ==
  /\ sent # <<>> => sent[1].event.type = STARTED
  /\ \A k \in 1..Len(sent) :
       /\ sent[k].event.type = STARTED => k = 1
       /\ sent[k].event.type = STOPPED => k = Len(sent) /\ pc = "done"

\* C37 witness: the Watcher has exited after sending `started`, events
\* about the tree, and `stopped`
C37_Witness ==
  /\ pc = "done"
  /\ Len(sent) >= 4
  /\ sent[1].event.type = STARTED
  /\ sent[Len(sent)].event.type = STOPPED
  /\ \E k \in 2..(Len(sent) - 1) : sent[k].event.type = CREATE_FILE
  /\ \E k \in 2..(Len(sent) - 1) : sent[k].event.type = DELETE

\* The tracked directories that record x as a child
ParentsOf(x) ==
  {d \in TrackedDirs : x \in inode_map[d].files \cup inode_map[d].dirs}

\* C38: between event-loop iterations every inode is a member of at most
\* one directory entry's files / dirs set, also while a file or directory
\* is being moved between two watched directories and only one of the two
\* parents has been reconciled.
C38_OneParentPerInode ==
  pc = "loop" => \A x \in 1..MaxInode : Cardinality(ParentsOf(x)) <= 1

\* C39: every descriptor that recv_event receives as ancillary data is
\* handed to the caller as the file handle returned with the event, so
\* that the consumer owns it; none is left open without an owner, in
\* particular for rename_dir events.
C39_ReceivedDescriptorsOwned ==
  \A k \in 1..Len(rcvd) :
    \A i \in 1..Len(rcvd[k].fds) : rcvd[k].f = rcvd[k].fds[i]

\* The Watcher and the Processor have terminated and both joins of the
\* Supervisor have returned
AllJoined ==
  /\ pc \in {"done", "crashed"}
  /\ PeerGone
  /\ spc \in {"p_joined", "cleaned"}

\* C40: after the Supervisor's exit trigger both the Watcher and the
\* consumer eventually terminate and both joins return, in whatever order
\* the Watcher's last send, the consumer's receive loop and the two control
\* queues are served.
C40_ShutdownTerminates == (spc = "stopping") ~> AllJoined

\* C40 witness: both joins have returned after the Watcher sent `stopped`
\* to a Processor that was still connected and then read the sentinel
C40_Witness ==
  /\ spc = "p_joined"
  /\ pc = "done"
  /\ ppc = "stopped"
  /\ sent # <<>>
  /\ sent[Len(sent)].event.type = STOPPED

==========================================================================
